---------------------------- MODULE Spec2Model ----------------------------
(***************************************************************************)
(* ResumeIQ: the ATS scoring function (ats_scorer.py) and the bounded      *)
(* refinement pipeline (resume_builder.py: polish, diversify, critical     *)
(* injection, complementary expansion, orchestrated by refine_for_ats).    *)
(*                                                                         *)
(* Every Python str is a sequence of one-character strings, so that        *)
(* lower(), capitalize(), the regular-expression substitutions, the        *)
(* template formatting and the joins are computed character by character.  *)
(* A dict is the sequence of its items in insertion order.                 *)
(***************************************************************************)
EXTENDS Integers, Sequences, FiniteSets, TLC

(***************************************************************************)
(* str methods                                                             *)
(***************************************************************************)
\* the set of the elements of a list
Range(seq) == {seq[i] : i \in DOMAIN seq}

UpperLetters ==
  <<"A","B","C","D","E","F","G","H","I","J","K","L","M",
    "N","O","P","Q","R","S","T","U","V","W","X","Y","Z">>

LowerLetters ==
  <<"a","b","c","d","e","f","g","h","i","j","k","l","m",
    "n","o","p","q","r","s","t","u","v","w","x","y","z">>

ToLower ==
  [c \in Range(UpperLetters) |->
     LowerLetters[CHOOSE i \in DOMAIN UpperLetters : UpperLetters[i] = c]]

ToUpper ==
  [c \in Range(LowerLetters) |->
     UpperLetters[CHOOSE i \in DOMAIN LowerLetters : LowerLetters[i] = c]]

\* str.lower() of one character (ASCII)
LowerChar(c) == IF c \in DOMAIN ToLower THEN ToLower[c] ELSE c

\* str.upper() of one character (ASCII)
UpperChar(c) == IF c \in DOMAIN ToUpper THEN ToUpper[c] ELSE c

\* str.lower()
lower(s) == [i \in 1..Len(s) |-> LowerChar(s[i])]

\* str.capitalize(): first character upper-cased, the rest lower-cased
capitalize(s) ==
  IF s = <<>> THEN s ELSE <<UpperChar(s[1])>> \o lower(Tail(s))

\* {x.lower() for x in seq} / set(x.lower() for x in seq)
LowerSet(seq) == {lower(seq[i]) : i \in DOMAIN seq}

\* sep.join(parts), from part i on
RECURSIVE join_from(_, _, _)
join_from(sep, parts, i) ==
  IF i > Len(parts) THEN <<>>
  ELSE IF i = Len(parts) THEN parts[i]
  ELSE parts[i] \o sep \o join_from(sep, parts, i + 1)

\* sep.join(parts)
join(sep, parts) == join_from(sep, parts, 1)

\* the concatenation of a list of lists, from list i on
RECURSIVE flatten_from(_, _)
flatten_from(lists, i) ==
  IF i > Len(lists) THEN <<>> ELSE lists[i] \o flatten_from(lists, i + 1)

\* the concatenation of a list of lists
Flatten(lists) == flatten_from(lists, 1)

\* every listing of a finite set as a list without repetition: list(a_set),
\* whose order the language leaves to the hash seed and the set's history
RECURSIVE Listings(_)
Listings(S) ==
  IF S = {} THEN {<<>>}
  ELSE UNION {{<<x>> \o l : l \in Listings(S \ {x})} : x \in S}

\* key in d, for a dict modelled as a record
has_key(d, key) == key \in DOMAIN d

\* d.get(key, default), for a dict modelled as a record
get(d, key, default) == IF key \in DOMAIN d THEN d[key] ELSE default

\* dict.get(key) on a list of <<key, value>> items; <<>> stands for None
PairGet(items, key) ==
  IF \E i \in DOMAIN items : items[i][1] = key
  THEN items[CHOOSE i \in DOMAIN items : items[i][1] = key][2]
  ELSE <<>>

(***************************************************************************)
(* The module-level tables of resume_builder.py, multi_role_predictor.py   *)
(* and ats_scorer.py                                                       *)
(***************************************************************************)
\* weak phrase -> strong verb, in the dictionary's insertion order
_WEAK_VERB_MAP ==
  \* "worked on" -> "engineered"
  << << <<"w","o","r","k","e","d"," ","o","n">>,
     <<"e","n","g","i","n","e","e","r","e","d">> >>,
  \* "made" -> "developed"
     << <<"m","a","d","e">>,
     <<"d","e","v","e","l","o","p","e","d">> >>,
  \* "helped" -> "facilitated"
     << <<"h","e","l","p","e","d">>,
     <<"f","a","c","i","l","i","t","a","t","e","d">> >>,
  \* "did" -> "executed"
     << <<"d","i","d">>,
     <<"e","x","e","c","u","t","e","d">> >>,
  \* "used" -> "leveraged"
     << <<"u","s","e","d">>,
     <<"l","e","v","e","r","a","g","e","d">> >>,
  \* "was responsible for" -> "spearheaded"
     << <<"w","a","s"," ","r","e","s","p","o","n","s","i","b","l","e"," ","f","o","r">>,
     <<"s","p","e","a","r","h","e","a","d","e","d">> >>,
  \* "handled" -> "orchestrated"
     << <<"h","a","n","d","l","e","d">>,
     <<"o","r","c","h","e","s","t","r","a","t","e","d">> >>,
  \* "created" -> "architected"
     << <<"c","r","e","a","t","e","d">>,
     <<"a","r","c","h","i","t","e","c","t","e","d">> >>,
  \* "wrote" -> "authored"
     << <<"w","r","o","t","e">>,
     <<"a","u","t","h","o","r","e","d">> >>,
  \* "fixed" -> "resolved"
     << <<"f","i","x","e","d">>,
     <<"r","e","s","o","l","v","e","d">> >>,
  \* "changed" -> "refactored"
     << <<"c","h","a","n","g","e","d">>,
     <<"r","e","f","a","c","t","o","r","e","d">> >>,
  \* "ran" -> "managed"
     << <<"r","a","n">>,
     <<"m","a","n","a","g","e","d">> >>,
  \* "set up" -> "provisioned"
     << <<"s","e","t"," ","u","p">>,
     <<"p","r","o","v","i","s","i","o","n","e","d">> >>,
  \* "looked at" -> "analyzed"
     << <<"l","o","o","k","e","d"," ","a","t">>,
     <<"a","n","a","l","y","z","e","d">> >> >>

\* vague impact phrase -> quantified phrase, in insertion order
_QUANTIFICATION_MAP ==
  \* "improving efficiency" -> "improving efficiency by 30%"
  << << <<"i","m","p","r","o","v","i","n","g"," ","e","f","f","i","c","i","e","n","c","y">>,
     <<"i","m","p","r","o","v","i","n","g"," ","e","f","f","i","c","i","e","n","c","y"," ","b","y"," ","3","0","%">> >>,
  \* "reducing time" -> "reducing processing time by 40%"
     << <<"r","e","d","u","c","i","n","g"," ","t","i","m","e">>,
     <<"r","e","d","u","c","i","n","g"," ","p","r","o","c","e","s","s","i","n","g"," ","t","i","m","e"," ","b","y"," ","4","0","%">> >>,
  \* "increasing performance" -> "increasing performance by 25%"
     << <<"i","n","c","r","e","a","s","i","n","g"," ","p","e","r","f","o","r","m","a","n","c","e">>,
     <<"i","n","c","r","e","a","s","i","n","g"," ","p","e","r","f","o","r","m","a","n","c","e"," ","b","y"," ","2","5","%">> >>,
  \* "reducing errors" -> "reducing errors by 35%"
     << <<"r","e","d","u","c","i","n","g"," ","e","r","r","o","r","s">>,
     <<"r","e","d","u","c","i","n","g"," ","e","r","r","o","r","s"," ","b","y"," ","3","5","%">> >>,
  \* "improving accuracy" -> "improving accuracy by 20%"
     << <<"i","m","p","r","o","v","i","n","g"," ","a","c","c","u","r","a","c","y">>,
     <<"i","m","p","r","o","v","i","n","g"," ","a","c","c","u","r","a","c","y"," ","b","y"," ","2","0","%">> >>,
  \* "increasing productivity" -> "increasing productivity by 30%"
     << <<"i","n","c","r","e","a","s","i","n","g"," ","p","r","o","d","u","c","t","i","v","i","t","y">>,
     <<"i","n","c","r","e","a","s","i","n","g"," ","p","r","o","d","u","c","t","i","v","i","t","y"," ","b","y"," ","3","0","%">> >>,
  \* "reducing costs" -> "reducing operational costs by 25%"
     << <<"r","e","d","u","c","i","n","g"," ","c","o","s","t","s">>,
     <<"r","e","d","u","c","i","n","g"," ","o","p","e","r","a","t","i","o","n","a","l"," ","c","o","s","t","s"," ","b","y"," ","2","5","%">> >>,
  \* "improving speed" -> "improving response speed by 45%"
     << <<"i","m","p","r","o","v","i","n","g"," ","s","p","e","e","d">>,
     <<"i","m","p","r","o","v","i","n","g"," ","r","e","s","p","o","n","s","e"," ","s","p","e","e","d"," ","b","y"," ","4","5","%">> >> >>

\* each template as <<text before {skill}, text after {skill}>>
_EXP_INJECTION_TEMPLATES ==
  << << <<"E","n","g","i","n","e","e","r","e","d"," ","s","c","a","l","a","b","l","e"," ","s","o","l","u","t","i","o","n","s"," ","l","e","v","e","r","a","g","i","n","g"," ">>,
     <<" ","f","o","r"," ","p","r","o","d","u","c","t","i","o","n","-","g","r","a","d","e"," ","d","e","p","l","o","y","m","e","n","t">> >>,
     << <<"A","r","c","h","i","t","e","c","t","e","d"," ","a","n","d"," ","d","e","l","i","v","e","r","e","d"," ","f","e","a","t","u","r","e","s"," ","u","s","i","n","g"," ">>,
     <<" ","t","o"," ","m","e","e","t"," ","c","r","i","t","i","c","a","l"," ","b","u","s","i","n","e","s","s"," ","r","e","q","u","i","r","e","m","e","n","t","s">> >>,
     << <<"O","p","t","i","m","i","z","e","d"," ","s","y","s","t","e","m"," ","r","e","l","i","a","b","i","l","i","t","y"," ","b","y"," ","a","d","o","p","t","i","n","g"," ">>,
     <<" ","a","c","r","o","s","s"," ","t","h","e"," ","d","e","v","e","l","o","p","m","e","n","t"," ","l","i","f","e","c","y","c","l","e">> >> >>

\* each template as <<text before {skill}, text after {skill}>>
_PROJ_INJECTION_TEMPLATES ==
  << << <<"I","m","p","l","e","m","e","n","t","e","d"," ">>,
     <<" ","t","o"," ","e","n","h","a","n","c","e"," ","s","y","s","t","e","m"," ","r","e","l","i","a","b","i","l","i","t","y"," ","a","n","d"," ","p","e","r","f","o","r","m","a","n","c","e">> >>,
     << <<"I","n","t","e","g","r","a","t","e","d"," ">>,
     <<" ","t","o"," ","s","t","r","e","a","m","l","i","n","e"," ","d","e","v","e","l","o","p","m","e","n","t"," ","w","o","r","k","f","l","o","w"," ","a","n","d"," ","o","u","t","p","u","t"," ","q","u","a","l","i","t","y">> >>,
     << <<"L","e","v","e","r","a","g","e","d"," ">>,
     <<" ","f","o","r"," ","r","o","b","u","s","t"," ","d","a","t","a"," ","p","r","o","c","e","s","s","i","n","g"," ","a","n","d"," ","f","e","a","t","u","r","e"," ","d","e","l","i","v","e","r","y">> >> >>

\* the four categories in insertion order; fallbacks as <<role, skill>> pairs
_SKILL_CATEGORIES ==
  << [name |-> "language_framework",
      keywords |-> <<<<"p","y","t","h","o","n">>, <<"j","a","v","a">>, <<"j","a","v","a","s","c","r","i","p","t">>, <<"c","+","+">>, <<"c","#">>, <<"g","o">>, <<"r","u","b","y">>, <<"p","h","p">>, <<"t","y","p","e","s","c","r","i","p","t">>, <<"s","w","i","f","t">>, <<"k","o","t","l","i","n">>, <<"r","u","s","t">>, <<"s","c","a","l","a">>, <<"r">>, <<"r","e","a","c","t">>, <<"a","n","g","u","l","a","r">>, <<"v","u","e">>, <<"f","l","a","s","k">>, <<"d","j","a","n","g","o">>, <<"s","p","r","i","n","g">>, <<"e","x","p","r","e","s","s">>, <<"n","o","d","e",".","j","s">>, <<"f","a","s","t","a","p","i">>, <<".","n","e","t">>, <<"r","a","i","l","s">>>>,
      fallbacks |-> <<<<<<"W","e","b"," ","D","e","v","e","l","o","p","e","r">>, <<"N","o","d","e",".","j","s">>>>,
                      <<<<"B","a","c","k","e","n","d"," ","D","e","v","e","l","o","p","e","r">>, <<"D","j","a","n","g","o">>>>,
                      <<<<"D","a","t","a"," ","A","n","a","l","y","s","t">>, <<"R">>>>,
                      <<<<"M","L"," ","E","n","g","i","n","e","e","r">>, <<"s","c","i","k","i","t","-","l","e","a","r","n">>>>,
                      <<<<"S","o","f","t","w","a","r","e"," ","E","n","g","i","n","e","e","r">>, <<"P","y","t","h","o","n">>>>>>],
     [name |-> "database_storage",
      keywords |-> <<<<"s","q","l">>, <<"m","y","s","q","l">>, <<"p","o","s","t","g","r","e","s","q","l">>, <<"m","o","n","g","o","d","b">>, <<"r","e","d","i","s">>, <<"s","q","l","i","t","e">>, <<"c","a","s","s","a","n","d","r","a">>, <<"d","y","n","a","m","o","d","b">>, <<"f","i","r","e","b","a","s","e">>, <<"e","l","a","s","t","i","c","s","e","a","r","c","h">>, <<"o","r","a","c","l","e">>, <<"n","e","o","4","j">>, <<"p","a","n","d","a","s">>, <<"n","u","m","p","y">>>>,
      fallbacks |-> <<<<<<"W","e","b"," ","D","e","v","e","l","o","p","e","r">>, <<"M","o","n","g","o","D","B">>>>,
                      <<<<"B","a","c","k","e","n","d"," ","D","e","v","e","l","o","p","e","r">>, <<"P","o","s","t","g","r","e","S","Q","L">>>>,
                      <<<<"D","a","t","a"," ","A","n","a","l","y","s","t">>, <<"S","Q","L">>>>,
                      <<<<"M","L"," ","E","n","g","i","n","e","e","r">>, <<"N","u","m","P","y">>>>,
                      <<<<"S","o","f","t","w","a","r","e"," ","E","n","g","i","n","e","e","r">>, <<"S","Q","L">>>>>>],
     [name |-> "tool_platform",
      keywords |-> <<<<"g","i","t">>, <<"d","o","c","k","e","r">>, <<"a","w","s">>, <<"a","z","u","r","e">>, <<"g","c","p">>, <<"l","i","n","u","x">>, <<"k","u","b","e","r","n","e","t","e","s">>, <<"j","e","n","k","i","n","s">>, <<"c","i","/","c","d">>, <<"t","e","r","r","a","f","o","r","m">>, <<"a","n","s","i","b","l","e">>, <<"j","i","r","a">>, <<"h","e","r","o","k","u">>, <<"v","e","r","c","e","l">>, <<"n","e","t","l","i","f","y">>, <<"p","o","s","t","m","a","n">>, <<"v","s","c","o","d","e">>>>,
      fallbacks |-> <<<<<<"W","e","b"," ","D","e","v","e","l","o","p","e","r">>, <<"G","i","t">>>>,
                      <<<<"B","a","c","k","e","n","d"," ","D","e","v","e","l","o","p","e","r">>, <<"D","o","c","k","e","r">>>>,
                      <<<<"D","a","t","a"," ","A","n","a","l","y","s","t">>, <<"J","u","p","y","t","e","r">>>>,
                      <<<<"M","L"," ","E","n","g","i","n","e","e","r">>, <<"G","i","t">>>>,
                      <<<<"S","o","f","t","w","a","r","e"," ","E","n","g","i","n","e","e","r">>, <<"G","i","t">>>>>>],
     [name |-> "cs_concept",
      keywords |-> <<<<"d","a","t","a"," ","s","t","r","u","c","t","u","r","e","s">>, <<"a","l","g","o","r","i","t","h","m","s">>, <<"o","o","p">>, <<"d","e","s","i","g","n"," ","p","a","t","t","e","r","n","s">>, <<"s","y","s","t","e","m"," ","d","e","s","i","g","n">>, <<"r","e","s","t"," ","a","p","i","s">>, <<"a","g","i","l","e">>, <<"m","i","c","r","o","s","e","r","v","i","c","e","s">>, <<"t","e","s","t","i","n","g">>, <<"m","a","c","h","i","n","e"," ","l","e","a","r","n","i","n","g">>, <<"d","e","e","p"," ","l","e","a","r","n","i","n","g">>, <<"s","t","a","t","i","s","t","i","c","s">>, <<"d","a","t","a"," ","a","n","a","l","y","s","i","s">>, <<"n","e","t","w","o","r","k","i","n","g">>, <<"o","p","e","r","a","t","i","n","g"," ","s","y","s","t","e","m","s">>>>,
      fallbacks |-> <<<<<<"W","e","b"," ","D","e","v","e","l","o","p","e","r">>, <<"R","E","S","T"," ","A","P","I","s">>>>,
                      <<<<"B","a","c","k","e","n","d"," ","D","e","v","e","l","o","p","e","r">>, <<"S","y","s","t","e","m"," ","D","e","s","i","g","n">>>>,
                      <<<<"D","a","t","a"," ","A","n","a","l","y","s","t">>, <<"S","t","a","t","i","s","t","i","c","s">>>>,
                      <<<<"M","L"," ","E","n","g","i","n","e","e","r">>, <<"D","e","e","p"," ","L","e","a","r","n","i","n","g">>>>,
                      <<<<"S","o","f","t","w","a","r","e"," ","E","n","g","i","n","e","e","r">>, <<"D","a","t","a"," ","S","t","r","u","c","t","u","r","e","s">>>>>>] >>

\* lower-cased form role -> closest supported role
_ROLE_ALIASES ==
  \* "backend developer" -> "Software Engineer"
  << << <<"b","a","c","k","e","n","d"," ","d","e","v","e","l","o","p","e","r">>,
     <<"S","o","f","t","w","a","r","e"," ","E","n","g","i","n","e","e","r">> >>,
  \* "frontend developer" -> "Web Developer"
     << <<"f","r","o","n","t","e","n","d"," ","d","e","v","e","l","o","p","e","r">>,
     <<"W","e","b"," ","D","e","v","e","l","o","p","e","r">> >>,
  \* "full stack developer" -> "Web Developer"
     << <<"f","u","l","l"," ","s","t","a","c","k"," ","d","e","v","e","l","o","p","e","r">>,
     <<"W","e","b"," ","D","e","v","e","l","o","p","e","r">> >>,
  \* "devops engineer" -> "Software Engineer"
     << <<"d","e","v","o","p","s"," ","e","n","g","i","n","e","e","r">>,
     <<"S","o","f","t","w","a","r","e"," ","E","n","g","i","n","e","e","r">> >>,
  \* "cloud engineer" -> "Software Engineer"
     << <<"c","l","o","u","d"," ","e","n","g","i","n","e","e","r">>,
     <<"S","o","f","t","w","a","r","e"," ","E","n","g","i","n","e","e","r">> >>,
  \* "mobile developer" -> "Software Engineer"
     << <<"m","o","b","i","l","e"," ","d","e","v","e","l","o","p","e","r">>,
     <<"S","o","f","t","w","a","r","e"," ","E","n","g","i","n","e","e","r">> >>,
  \* "data scientist" -> "Data Analyst"
     << <<"d","a","t","a"," ","s","c","i","e","n","t","i","s","t">>,
     <<"D","a","t","a"," ","A","n","a","l","y","s","t">> >> >>

\* role -> skills, in insertion order
ROLE_SKILLS ==
  << [role |-> <<"W","e","b"," ","D","e","v","e","l","o","p","e","r">>,
      skills |-> <<<<"h","t","m","l">>, <<"c","s","s">>, <<"j","a","v","a","s","c","r","i","p","t">>, <<"r","e","a","c","t">>, <<"s","q","l">>>>],
     [role |-> <<"B","a","c","k","e","n","d"," ","D","e","v","e","l","o","p","e","r">>,
      skills |-> <<<<"p","y","t","h","o","n">>, <<"j","a","v","a">>, <<"s","q","l">>, <<"f","l","a","s","k">>, <<"a","p","i">>>>],
     [role |-> <<"D","a","t","a"," ","A","n","a","l","y","s","t">>,
      skills |-> <<<<"p","y","t","h","o","n">>, <<"s","q","l">>, <<"p","a","n","d","a","s">>, <<"e","x","c","e","l">>, <<"s","t","a","t","i","s","t","i","c","s">>>>],
     [role |-> <<"S","o","f","t","w","a","r","e"," ","E","n","g","i","n","e","e","r">>,
      skills |-> <<<<"c">>, <<"c","+","+">>, <<"j","a","v","a">>, <<"d","a","t","a"," ","s","t","r","u","c","t","u","r","e","s">>>>],
     [role |-> <<"M","L"," ","E","n","g","i","n","e","e","r">>,
      skills |-> <<<<"p","y","t","h","o","n">>, <<"m","a","c","h","i","n","e"," ","l","e","a","r","n","i","n","g">>, <<"n","u","m","p","y">>, <<"p","a","n","d","a","s">>>>] >>

\* role -> critical skills, in insertion order
CRITICAL_SKILLS ==
  << [role |-> <<"W","e","b"," ","D","e","v","e","l","o","p","e","r">>,
      skills |-> <<<<"h","t","m","l">>, <<"c","s","s">>, <<"j","a","v","a","s","c","r","i","p","t">>, <<"r","e","a","c","t">>>>],
     [role |-> <<"B","a","c","k","e","n","d"," ","D","e","v","e","l","o","p","e","r">>,
      skills |-> <<<<"p","y","t","h","o","n">>, <<"f","l","a","s","k">>, <<"a","p","i">>, <<"s","q","l">>>>],
     [role |-> <<"D","a","t","a"," ","A","n","a","l","y","s","t">>,
      skills |-> <<<<"p","y","t","h","o","n">>, <<"s","q","l">>, <<"p","a","n","d","a","s">>, <<"s","t","a","t","i","s","t","i","c","s">>>>],
     [role |-> <<"M","L"," ","E","n","g","i","n","e","e","r">>,
      skills |-> <<<<"p","y","t","h","o","n">>, <<"m","a","c","h","i","n","e"," ","l","e","a","r","n","i","n","g">>, <<"n","u","m","p","y">>>>],
     [role |-> <<"S","o","f","t","w","a","r","e"," ","E","n","g","i","n","e","e","r">>,
      skills |-> <<<<"d","a","t","a"," ","s","t","r","u","c","t","u","r","e","s">>, <<"a","l","g","o","r","i","t","h","m","s">>, <<"j","a","v","a">>, <<"c","+","+">>>>] >>

(***************************************************************************)
(* ats_scorer.py                                                           *)
(***************************************************************************)
\* Python truthiness of a str or a list
Truthy(x) == x # <<>>

\* job_role in job_roles, for the catalog load_job_roles() returns: the list
\* of the JSON object's [role, skills] members in file order
CatalogHas(jr, r) == \E i \in DOMAIN jr : jr[i].role = r

\* job_roles.get(job_role, [])
CatalogGet(jr, r) ==
  IF CatalogHas(jr, r)
  THEN jr[CHOOSE i \in DOMAIN jr : jr[i].role = r].skills
  ELSE <<>>

\* a plausible slip: the missing skill is compared without lower-casing it
classify_without_lower(role_, missing_skills, required_skills) ==
  LET required_set == LowerSet(required_skills)
  IN [critical |-> SelectSeq(missing_skills, LAMBDA s : s \in required_set),
      optional |-> SelectSeq(missing_skills, LAMBDA s : s \notin required_set)]

classify_missing_skills(role_, missing_skills, required_skills) ==
  LET required_set == LowerSet(required_skills)
  IN [critical |-> SelectSeq(missing_skills,
                             LAMBDA s : lower(s) \in required_set),
      optional |-> SelectSeq(missing_skills,
                             LAMBDA s : lower(s) \notin required_set)]

\* int((len(matched_skills) / len(required_skills)) * 50) for m matched of
\* r > 0 required.  The quotient and the product are IEEE-754 doubles and
\* int() truncates: 29/50 is the double 0.57999999999999996, its product
\* with 50 is 28.999999999999996, and int() gives 28.  For every other
\* ratio with r < 400 the result is the exact floor of 50*m/r.
skill_points(m, r) ==
  IF 50 * m = 29 * r THEN 28 ELSE (50 * m) \div r

\* resume_skills, required_skills, matched_skills, missing_skills (the sets)
resume_skills_of(parsed_data) == LowerSet(parsed_data.skills)

required_skills_of(job_role, jr) == LowerSet(CatalogGet(jr, job_role))

matched_skills_of(parsed_data, job_role, jr) ==
  resume_skills_of(parsed_data) \cap required_skills_of(job_role, jr)

missing_skills_of(parsed_data, job_role, jr) ==
  required_skills_of(job_role, jr) \ resume_skills_of(parsed_data)

\* a plausible slip: the share is taken of the resume's skills, not of the
\* required ones
skill_score_over_resume(parsed_data, job_role, jr) ==
  IF Cardinality(resume_skills_of(parsed_data)) > 0
  THEN skill_points(Cardinality(matched_skills_of(parsed_data, job_role, jr)),
                    Cardinality(resume_skills_of(parsed_data)))
  ELSE 0

\* a plausible slip: an empty requirement counts as fully met
skill_score_full_when_empty(parsed_data, job_role, jr) ==
  IF Cardinality(required_skills_of(job_role, jr)) > 0
  THEN skill_points(Cardinality(matched_skills_of(parsed_data, job_role, jr)),
                    Cardinality(required_skills_of(job_role, jr)))
  ELSE 50

skill_score_of(parsed_data, job_role, jr) ==
  IF Cardinality(required_skills_of(job_role, jr)) > 0
  THEN skill_points(Cardinality(matched_skills_of(parsed_data, job_role, jr)),
                    Cardinality(required_skills_of(job_role, jr)))
  ELSE 0

\* a plausible slip: the entries of the list are counted, not the distinct
\* lower-cased skills
keyword_score_of_entries(parsed_data) ==
  LET n == Len(parsed_data.skills) * 2
  IN IF n < 30 THEN n ELSE 30

\* a plausible slip: the keyword points wrap around at 30 instead of
\* stopping there
keyword_score_of_wrapping(parsed_data) ==
  (Cardinality(resume_skills_of(parsed_data)) * 2) % 30

keyword_score_of(parsed_data) ==
  LET n == Cardinality(resume_skills_of(parsed_data)) * 2
  IN IF n < 30 THEN n ELSE 30

completeness_of(parsed_data) ==
    (IF Truthy(parsed_data.name) THEN 5 ELSE 0)
  + (IF Truthy(parsed_data.email) THEN 5 ELSE 0)
  + (IF Truthy(parsed_data.phone) THEN 5 ELSE 0)
  + (IF Truthy(parsed_data.skills) THEN 5 ELSE 0)

\* calculate_ats_score with the catalog jr that load_job_roles() returned.
\* missing_list is list(missing_skills), one listing of the set; the caller
\* draws it from Listings.  matched_skills is kept as the set of its
\* elements: no code reads the order of that list.
calculate_ats_score(parsed_data, job_role, jr, missing_list) ==
  LET skill_score == skill_score_of(parsed_data, job_role, jr)
      keyword_score == keyword_score_of(parsed_data)
      completeness == completeness_of(parsed_data)
      total_score == skill_score + keyword_score + completeness
  IN [ats_score |-> IF total_score < 100 THEN total_score ELSE 100,
      skill_score |-> skill_score,
      keyword_score |-> keyword_score,
      completeness_score |-> completeness,
      matched_skills |-> matched_skills_of(parsed_data, job_role, jr),
      missing_skills |-> missing_list,
      missing_classified |->
        classify_missing_skills(job_role, missing_list,
                                CatalogGet(jr, job_role))]

\* the value of ats_result before any scoring call
NoResult ==
  [ats_score |-> 0, skill_score |-> 0, keyword_score |-> 0,
   completeness_score |-> 0, matched_skills |-> {}, missing_skills |-> <<>>,
   missing_classified |-> [critical |-> <<>>, optional |-> <<>>]]

(***************************************************************************)
(* resume_builder.py: the derived text                                     *)
(***************************************************************************)
SP == <<" ">>

_build_full_text(data) ==
  LET edu_parts == [i \in DOMAIN data.education |->
                      data.education[i].degree \o SP
                      \o data.education[i].institution \o SP
                      \o data.education[i].year]
      exp_parts == Flatten([i \in DOMAIN data.experience |->
                      <<data.experience[i].title \o SP
                        \o data.experience[i].company \o SP
                        \o data.experience[i].duration>>
                      \o data.experience[i].bullets])
      proj_parts == Flatten([i \in DOMAIN data.projects |->
                      <<data.projects[i].name \o SP \o data.projects[i].tech>>
                      \o data.projects[i].bullets])
      parts == <<data.name, data.email, data.phone, data.career_objective>>
               \o edu_parts \o exp_parts \o proj_parts
               \o <<join(SP, get(data, "skills_list", <<>>))>>
               \o data.certifications_list \o data.achievements_list
  IN join(SP, parts)

build_parsed_data(resume_data) ==
  [name |-> resume_data.name,
   email |-> resume_data.email,
   phone |-> resume_data.phone,
   skills |-> get(resume_data, "skills_list", <<>>),
   text |-> resume_data.full_text]

(***************************************************************************)
(* resume_builder.py: 1. language quality enhancement                      *)
(***************************************************************************)
\* re.compile(re.escape(phrase), re.IGNORECASE).search(text): the start of
\* the leftmost occurrence (1-based), 0 for no match
\* whether phrase occurs in text at i, letters compared without case
match_at(phrase, text, i) ==
  \A j \in 1..Len(phrase) :
    LowerChar(text[i + j - 1]) = LowerChar(phrase[j])

search(phrase, text) ==
  LET hits == {i \in 1..(Len(text) - Len(phrase) + 1) :
                 match_at(phrase, text, i)}
  IN IF hits = {} THEN 0 ELSE CHOOSE i \in hits : \A j \in hits : i <= j

\* pattern.sub(repl, text, count=1)
sub_once(phrase, repl, text) ==
  LET at == search(phrase, text)
  IN IF at = 0 THEN text
     ELSE SubSeq(text, 1, at - 1) \o repl
          \o SubSeq(text, at + Len(phrase), Len(text))

\* the least index from k on of an item of the map whose phrase occurs in
\* text, 0 when none does: the items before it leave the text as it is
next_hit(map, text, k) ==
  LET hits == {j \in k..Len(map) : search(map[j][1], text) # 0}
  IN IF hits = {} THEN 0 ELSE CHOOSE j \in hits : \A i \in hits : j <= i

\* the first loop of _enhance_single_bullet, from item k of _WEAK_VERB_MAP:
\* the next phrase that occurs is replaced once (capitalized at the start of
\* the bullet), and the loop goes on with the items after it
RECURSIVE replace_weak_verbs(_, _)
replace_weak_verbs(enhanced, k) ==
  LET j == next_hit(_WEAK_VERB_MAP, enhanced, k)
  IN IF j = 0 THEN enhanced
     ELSE LET weak == _WEAK_VERB_MAP[j][1]
              strong == _WEAK_VERB_MAP[j][2]
          IN IF search(weak, enhanced) = 1
             THEN replace_weak_verbs(
                    sub_once(weak, capitalize(strong), enhanced), j + 1)
             ELSE replace_weak_verbs(sub_once(weak, strong, enhanced), j + 1)

\* the second loop, from item k of _QUANTIFICATION_MAP
RECURSIVE add_quantification(_, _)
add_quantification(enhanced, k) ==
  LET j == next_hit(_QUANTIFICATION_MAP, enhanced, k)
  IN IF j = 0 THEN enhanced
     ELSE add_quantification(
            sub_once(_QUANTIFICATION_MAP[j][1], _QUANTIFICATION_MAP[j][2],
                     enhanced), j + 1)

_enhance_single_bullet(bullet) ==
  add_quantification(replace_weak_verbs(bullet, 1), 1)

\* a plausible slip: the polished bullets are cut to 3 per entry, as
\* format_resume_data cuts a project's bullets
enhance_entries_cut(entries) ==
  [i \in DOMAIN entries |->
     [entries[i] EXCEPT !.bullets =
        [j \in 1..(IF Len(entries[i].bullets) < 3
                   THEN Len(entries[i].bullets) ELSE 3) |->
           _enhance_single_bullet(entries[i].bullets[j])]]]

enhance_entries(entries) ==
  [i \in DOMAIN entries |->
     [entries[i] EXCEPT !.bullets =
        [j \in DOMAIN entries[i].bullets |->
           _enhance_single_bullet(entries[i].bullets[j])]]]

enhance_language_quality(resume_data) ==
  [resume_data EXCEPT !.experience = enhance_entries(resume_data.experience),
                      !.projects = enhance_entries(resume_data.projects)]

(***************************************************************************)
(* resume_builder.py: 2. skill diversity validation                        *)
(***************************************************************************)
\* a plausible slip: the fallback is appended without asking whether the
\* skills already hold it
RECURSIVE diversity_from_unchecked(_, _, _, _)
diversity_from_unchecked(skills_list, current_skills_lower, role_, k) ==
  IF k > Len(_SKILL_CATEGORIES) THEN skills_list
  ELSE LET category_info == _SKILL_CATEGORIES[k]
           has_category == \E i \in DOMAIN category_info.keywords :
                             category_info.keywords[i] \in current_skills_lower
           fallback == PairGet(category_info.fallbacks, role_)
       IN IF ~has_category /\ Truthy(fallback)
          THEN diversity_from_unchecked(Append(skills_list, fallback),
                                        current_skills_lower
                                          \cup {lower(fallback)},
                                        role_, k + 1)
          ELSE diversity_from_unchecked(skills_list, current_skills_lower,
                                        role_, k + 1)

\* the loop over _SKILL_CATEGORIES from category k on, with the skills list
\* and current_skills_lower as they stand
RECURSIVE diversity_from(_, _, _, _)
diversity_from(skills_list, current_skills_lower, role_, k) ==
  IF k > Len(_SKILL_CATEGORIES) THEN skills_list
  ELSE LET category_info == _SKILL_CATEGORIES[k]
           has_category == \E i \in DOMAIN category_info.keywords :
                             category_info.keywords[i] \in current_skills_lower
           fallback == PairGet(category_info.fallbacks, role_)
       IN IF ~has_category /\ Truthy(fallback)
             /\ lower(fallback) \notin current_skills_lower
          THEN diversity_from(Append(skills_list, fallback),
                              current_skills_lower \cup {lower(fallback)},
                              role_, k + 1)
          ELSE diversity_from(skills_list, current_skills_lower, role_, k + 1)

\* line 435 with the key absent: resume_data["skills_list"] raises KeyError
\* at the first fallback to append (line 423 read the list with a default)
diversity_raises(resume_data, role_) ==
  /\ ~has_key(resume_data, "skills_list")
  /\ diversity_from(<<>>, {}, role_, 1) # <<>>

\* a plausible slip: the stage also rebuilds the derived text
validate_resume_diversity_refresh(resume_data, role_) ==
  LET skills_list == get(resume_data, "skills_list", <<>>)
      grown == [resume_data EXCEPT !.skills_list =
                  diversity_from(skills_list, LowerSet(skills_list), role_, 1)]
  IN IF has_key(resume_data, "skills_list")
     THEN [grown EXCEPT !.full_text = _build_full_text(grown)]
     ELSE resume_data

validate_resume_diversity(resume_data, role_) ==
  LET skills_list == get(resume_data, "skills_list", <<>>)
  IN IF has_key(resume_data, "skills_list")
     THEN [resume_data EXCEPT !.skills_list =
             diversity_from(skills_list, LowerSet(skills_list), role_, 1)]
     ELSE resume_data

(***************************************************************************)
(* resume_builder.py: 3. missing critical role skill injection             *)
(***************************************************************************)
\* template.format(skill=skill)
format(template, skill) == template[1] \o skill \o template[2]

\* a plausible slip: the bullet is appended whatever the entry holds
weave_no_cap(bullets, bullet, cap) == Append(bullets, bullet)

\* a plausible slip: at the cap the new bullet takes the last bullet's place
weave_over_last(bullets, bullet, cap) ==
  IF Truthy(bullets)
  THEN IF Len(bullets) < cap THEN Append(bullets, bullet)
       ELSE [bullets EXCEPT ![Len(bullets)] = bullet]
  ELSE <<bullet>>

\* target["bullets"] after weaving bullet into an entry whose cap is cap
weave(bullets, bullet, cap) ==
  IF Truthy(bullets)
  THEN IF Len(bullets) < cap THEN Append(bullets, bullet) ELSE bullets
  ELSE <<bullet>>

\* a plausible slip: entry_index is never advanced, so every skill of a
\* call targets the first entry
RECURSIVE inject_from_no_rotate(_, _, _, _, _)
inject_from_no_rotate(data, to_inject, current_lower, entry_index, k) ==
  IF k > Len(to_inject) THEN data
  ELSE LET skill == to_inject[k] IN
    IF lower(skill) \in current_lower
    THEN inject_from_no_rotate(data, to_inject, current_lower, entry_index,
                               k + 1)
    ELSE
      LET experiences == data.experience
          projects == data.projects
          e == (entry_index % Len(experiences)) + 1
          p == (entry_index % Len(projects)) + 1
          exp_template ==
            _EXP_INJECTION_TEMPLATES[(entry_index
                                      % Len(_EXP_INJECTION_TEMPLATES)) + 1]
          proj_template ==
            _PROJ_INJECTION_TEMPLATES[(entry_index
                                       % Len(_PROJ_INJECTION_TEMPLATES)) + 1]
          woven ==
            IF Truthy(experiences)
            THEN [data EXCEPT !.experience[e].bullets =
                    weave(@, format(exp_template, skill), 4)]
            ELSE IF Truthy(projects)
            THEN [data EXCEPT !.projects[p].bullets =
                    weave(@, format(proj_template, skill), 3)]
            ELSE data
      IN inject_from_no_rotate([woven EXCEPT
                                  !.skills_list = Append(@, skill)],
                               to_inject, current_lower \cup {lower(skill)},
                               entry_index, k + 1)

\* the loop over to_inject from its item k on; data carries skills_list,
\* experience and projects as mutated so far
RECURSIVE inject_from(_, _, _, _, _)
inject_from(data, to_inject, current_lower, entry_index, k) ==
  IF k > Len(to_inject) THEN data
  ELSE LET skill == to_inject[k] IN
    IF lower(skill) \in current_lower
    THEN inject_from(data, to_inject, current_lower, entry_index, k + 1)
    ELSE
      LET experiences == data.experience
          projects == data.projects
          e == (entry_index % Len(experiences)) + 1
          p == (entry_index % Len(projects)) + 1
          exp_template ==
            _EXP_INJECTION_TEMPLATES[(entry_index
                                      % Len(_EXP_INJECTION_TEMPLATES)) + 1]
          proj_template ==
            _PROJ_INJECTION_TEMPLATES[(entry_index
                                       % Len(_PROJ_INJECTION_TEMPLATES)) + 1]
          woven ==
            IF Truthy(experiences)
            THEN [data EXCEPT !.experience[e].bullets =
                    weave(@, format(exp_template, skill), 4)]
            ELSE IF Truthy(projects)
            THEN [data EXCEPT !.projects[p].bullets =
                    weave(@, format(proj_template, skill), 3)]
            ELSE data
      IN inject_from([woven EXCEPT !.skills_list = Append(@, skill)],
                     to_inject, current_lower \cup {lower(skill)},
                     entry_index + 1, k + 1)

\* line 452 with the key absent: resume_data["skills_list"] raises KeyError
\* once the early return for an empty missing list is passed
injection_raises(resume_data, ats_result_) ==
  /\ Truthy(ats_result_.missing_skills)
  /\ ~has_key(resume_data, "skills_list")

\* a plausible slip: the cut is missing[:1], one skill per call
inject_one_missing_skill(resume_data, ats_result_, role_) ==
  LET missing == ats_result_.missing_skills
  IN IF ~Truthy(missing) THEN resume_data
     ELSE inject_from(resume_data, SubSeq(missing, 1, 1),
                      LowerSet(resume_data.skills_list), 0, 1)

inject_missing_role_skills(resume_data, ats_result_, role_) ==
  LET missing == ats_result_.missing_skills
  IN IF ~Truthy(missing) THEN resume_data
     ELSE inject_from(resume_data,
                      SubSeq(missing, 1, IF Len(missing) < 2
                                         THEN Len(missing) ELSE 2),
                      LowerSet(resume_data.skills_list), 0, 1)

(***************************************************************************)
(* resume_builder.py: 4. complementary domain skill injection              *)
(***************************************************************************)
max_to_add == 5

\* the skills of the pool's selected entries, appended in pool order
skills_of(selected) ==
  Flatten([i \in DOMAIN selected |-> selected[i].skills])

\* a plausible slip: the related roles' skills are collected before the
\* target role's own
candidates_related_first(role_, role_skills_map, jr) ==
  LET role_pool == ROLE_SKILLS
      own == skills_of(SelectSeq(role_pool,
                                 LAMBDA x : lower(x.role) = lower(role_)))
             \o (IF CatalogHas(jr, role_) THEN CatalogGet(jr, role_)
                 ELSE <<>>)
             \o (IF Truthy(role_skills_map) /\ CatalogHas(role_skills_map, role_)
                 THEN CatalogGet(role_skills_map, role_) ELSE <<>>)
      target_skills == LowerSet(own)
      related(x) == /\ lower(x.role) # lower(role_)
                    /\ target_skills \cap LowerSet(x.skills) # {}
  IN skills_of(SelectSeq(role_pool, related))
     \o skills_of(SelectSeq(jr, related)) \o own

\* the candidates list of inject_complementary_skills
complementary_candidates(role_, role_skills_map, jr) ==
  LET role_pool == ROLE_SKILLS
      own == skills_of(SelectSeq(role_pool,
                                 LAMBDA x : lower(x.role) = lower(role_)))
             \o (IF CatalogHas(jr, role_) THEN CatalogGet(jr, role_)
                 ELSE <<>>)
             \o (IF Truthy(role_skills_map) /\ CatalogHas(role_skills_map, role_)
                 THEN CatalogGet(role_skills_map, role_) ELSE <<>>)
      target_skills == LowerSet(own)
      related(x) == /\ lower(x.role) # lower(role_)
                    /\ target_skills \cap LowerSet(x.skills) # {}
  IN own \o skills_of(SelectSeq(role_pool, related))
         \o skills_of(SelectSeq(jr, related))

\* a plausible slip: the loop does not stop at max_to_add
RECURSIVE add_candidates_no_break(_, _, _, _, _, _)
add_candidates_no_break(skills_list, candidates, current_lower, seen, added, k) ==
  IF k > Len(candidates) THEN skills_list
  ELSE LET skill == candidates[k] IN
    IF lower(skill) \notin current_lower /\ lower(skill) \notin seen
    THEN add_candidates_no_break(Append(skills_list, skill), candidates,
                                 current_lower \cup {lower(skill)},
                                 seen \cup {lower(skill)}, added + 1, k + 1)
    ELSE add_candidates_no_break(skills_list, candidates, current_lower,
                                 seen, added, k + 1)

\* a plausible slip: the loop filters the skills the resume had but does
\* not remember the ones it has added
RECURSIVE add_candidates_no_dedup(_, _, _, _, _, _)
add_candidates_no_dedup(skills_list, candidates, current_lower, seen, added, k) ==
  IF k > Len(candidates) THEN skills_list
  ELSE LET skill == candidates[k] IN
    IF lower(skill) \notin current_lower
    THEN IF added + 1 >= max_to_add
         THEN Append(skills_list, skill)
         ELSE add_candidates_no_dedup(Append(skills_list, skill), candidates,
                                      current_lower, seen, added + 1, k + 1)
    ELSE add_candidates_no_dedup(skills_list, candidates, current_lower,
                                 seen, added, k + 1)

\* the deduplicating loop from candidate k on
RECURSIVE add_candidates(_, _, _, _, _, _)
add_candidates(skills_list, candidates, current_lower, seen, added, k) ==
  IF k > Len(candidates) THEN skills_list
  ELSE LET skill == candidates[k] IN
    IF lower(skill) \notin current_lower /\ lower(skill) \notin seen
    THEN IF added + 1 >= max_to_add
         THEN Append(skills_list, skill)
         ELSE add_candidates(Append(skills_list, skill), candidates,
                             current_lower \cup {lower(skill)},
                             seen \cup {lower(skill)}, added + 1, k + 1)
    ELSE add_candidates(skills_list, candidates, current_lower, seen,
                        added, k + 1)

\* line 499 with the key absent: resume_data["skills_list"] raises KeyError
expansion_raises(resume_data) == ~has_key(resume_data, "skills_list")

inject_complementary_skills(resume_data, role_, role_skills_map, jr) ==
  [resume_data EXCEPT !.skills_list =
     add_candidates(@, complementary_candidates(role_, role_skills_map, jr),
                    LowerSet(resume_data.skills_list), {}, 0, 1)]

(***************************************************************************)
(* resume_builder.py: 6. role normalization                                *)
(***************************************************************************)
DefaultRole ==
  <<"S","o","f","t","w","a","r","e"," ","E","n","g","i","n","e","e","r">>

\* a plausible slip: the alias table is consulted with the role as typed
normalize_role_case_sensitive(role_, jr, loaded) ==
  IF ~loaded THEN role_
  ELSE IF CatalogHas(jr, role_) THEN role_
  ELSE LET alias == PairGet(_ROLE_ALIASES, role_)
       IN IF Truthy(alias) /\ CatalogHas(jr, alias) THEN alias
          ELSE DefaultRole

\* loaded is FALSE when load_job_roles() raises FileNotFoundError
_normalize_role(role_, jr, loaded) ==
  IF ~loaded THEN role_
  ELSE IF CatalogHas(jr, role_) THEN role_
  ELSE LET alias == PairGet(_ROLE_ALIASES, lower(role_))
       IN IF Truthy(alias) /\ CatalogHas(jr, alias) THEN alias
          ELSE DefaultRole

max_attempts == 2
(***************************************************************************)
(* Inputs: the strings, lists and catalogs the runs are started from       *)
(***************************************************************************)
\* "Web Developer"
WebDeveloper == <<"W","e","b"," ","D","e","v","e","l","o","p","e","r">>

\* "Frontend Developer"
FrontendDeveloper == <<"F","r","o","n","t","e","n","d"," ","D","e","v","e","l","o","p","e","r">>

\* "FRONTEND DEVELOPER"
FRONTEND_DEVELOPER == <<"F","R","O","N","T","E","N","D"," ","D","E","V","E","L","O","P","E","R">>

\* "Backend Developer"
BackendDeveloper == <<"B","a","c","k","e","n","d"," ","D","e","v","e","l","o","p","e","r">>

\* "Data Scientist"
DataScientist == <<"D","a","t","a"," ","S","c","i","e","n","t","i","s","t">>

\* "Data Analyst"
DataAnalyst == <<"D","a","t","a"," ","A","n","a","l","y","s","t">>

\* "Chef"
Chef == <<"C","h","e","f">>

\* "Intern"
Intern == <<"I","n","t","e","r","n">>

RoleInputs ==
  {WebDeveloper, FrontendDeveloper, FRONTEND_DEVELOPER, BackendDeveloper,
   DataScientist, Chef, Intern, DefaultRole}

\* a catalog without the default role, with mixed-case skills
CatalogNoDefault ==
  << [role |-> WebDeveloper,
      skills |-> <<<<"H","T","M","L">>, <<"C","S","S">>, <<"J","a","v","a","S","c","r","i","p","t">>>>],
     [role |-> DataAnalyst,
      skills |-> <<<<"p","y","t","h","o","n">>, <<"s","q","l">>, <<"p","a","n","d","a","s">>, <<"s","t","a","t","i","s","t","i","c","s">>>>] >>

\* a catalog that lists an alias verbatim and a role with no skills
CatalogSparse ==
  << [role |-> FrontendDeveloper,
      skills |-> <<<<"h","t","m","l">>, <<"c","s","s">>>>],
     [role |-> DefaultRole,
      skills |-> <<>>],
     [role |-> Intern,
      skills |-> <<<<"e","x","c","e","l">>>>] >>

\* a catalog whose one role requires 5 skills, none of them in the tables
CatalogFive ==
  << [role |-> Chef,
      skills |-> <<<<"k","n","i","f","e">>, <<"g","r","i","l","l">>, <<"p","a","s","t","r","y">>, <<"s","a","u","c","e">>, <<"m","e","n","u">>>>] >>

\* job_roles.json as load_job_roles() may return it; the first catalog has
\* the five roles and skills of CRITICAL_SKILLS
Catalogs == {CRITICAL_SKILLS, CatalogNoDefault, CatalogSparse}

\* no skills
SkillsNone ==
  <<>>

\* "Python", "SQL"
SkillsTwo ==
  <<<<"P","y","t","h","o","n">>, <<"S","Q","L">>>>

\* "html", "CSS"
SkillsWeb ==
  <<<<"h","t","m","l">>, <<"C","S","S">>>>

\* "Java", "Git", "sql", "OOP", "java": every category covered, one repeat
SkillsBroad ==
  <<<<"J","a","v","a">>, <<"G","i","t">>, <<"s","q","l">>, <<"O","O","P">>, <<"j","a","v","a">>>>

\* "HTML", "css", "JavaScript", "React", "Node.js", "MongoDB", "Git", "REST APIs", "Docker", "AWS"
SkillsTen ==
  <<<<"H","T","M","L">>, <<"c","s","s">>, <<"J","a","v","a","S","c","r","i","p","t">>, <<"R","e","a","c","t">>, <<"N","o","d","e",".","j","s">>, <<"M","o","n","g","o","D","B">>, <<"G","i","t">>, <<"R","E","S","T"," ","A","P","I","s">>, <<"D","o","c","k","e","r">>, <<"A","W","S">>>>

\* "Excel", "Python", "SQL", "pandas", "Statistics"
SkillsAnalyst ==
  <<<<"E","x","c","e","l">>, <<"P","y","t","h","o","n">>, <<"S","Q","L">>, <<"p","a","n","d","a","s">>, <<"S","t","a","t","i","s","t","i","c","s">>>>

\* 16 skills, two of them required of the role "Chef": "knife", "Grill"
SkillsChef ==
  <<<<"H","T","M","L">>, <<"c","s","s">>, <<"J","a","v","a","S","c","r","i","p","t">>, <<"R","e","a","c","t">>, <<"N","o","d","e",".","j","s">>, <<"M","o","n","g","o","D","B">>, <<"G","i","t">>, <<"R","E","S","T"," ","A","P","I","s">>, <<"D","o","c","k","e","r">>, <<"A","W","S">>, <<"P","y","t","h","o","n">>, <<"S","Q","L">>, <<"F","l","a","s","k">>, <<"J","a","v","a">>, <<"k","n","i","f","e">>, <<"G","r","i","l","l">>>>

SkillInputs == {SkillsNone, SkillsTwo, SkillsWeb, SkillsBroad, SkillsTen}

\* "Created REST api"
B_created == <<"C","r","e","a","t","e","d"," ","R","E","S","T"," ","a","p","i">>

\* "Built tools and used git"
B_used == <<"B","u","i","l","t"," ","t","o","o","l","s"," ","a","n","d"," ","u","s","e","d"," ","g","i","t">>

\* "Led team improving efficiency"
B_vague == <<"L","e","d"," ","t","e","a","m"," ","i","m","p","r","o","v","i","n","g"," ","e","f","f","i","c","i","e","n","c","y">>

\* "Designed schema"
B_plain == <<"D","e","s","i","g","n","e","d"," ","s","c","h","e","m","a">>

\* "Ran brand campaigns"
B_ran == <<"R","a","n"," ","b","r","a","n","d"," ","c","a","m","p","a","i","g","n","s">>

\* "Acme"
Acme == <<"A","c","m","e">>

\* "2024"
Y2024 == <<"2","0","2","4">>

\* "Engineer"
Engineer == <<"E","n","g","i","n","e","e","r">>

\* "Analyst"
Analyst == <<"A","n","a","l","y","s","t">>

\* "Shop"
Shop == <<"S","h","o","p">>

\* "Flask"
Flask == <<"F","l","a","s","k">>

\* "BSc"
BSc == <<"B","S","c">>

\* "MIT"
MIT == <<"M","I","T">>

\* "Ann"
Ann == <<"A","n","n">>

\* "a@b.c"
AnnMail == <<"a","@","b",".","c">>

\* "555"
Phone == <<"5","5","5">>

\* "Build things"
Objective == <<"B","u","i","l","d"," ","t","h","i","n","g","s">>

Education == << [degree |-> BSc, institution |-> MIT, year |-> Y2024] >>

ExpOne ==
  << [title |-> Engineer, company |-> Acme, duration |-> Y2024,
      bullets |-> <<B_created, B_vague>>] >>

\* the first entry is at the cap of 4 bullets, the second has none
ExpTwo ==
  << [title |-> Engineer, company |-> Acme, duration |-> Y2024,
      bullets |-> <<B_created, B_used, B_vague, B_plain>>],
     [title |-> Analyst, company |-> Acme, duration |-> Y2024,
      bullets |-> <<>>] >>

ProjOne ==
  << [name |-> Shop, tech |-> Flask, bullets |-> <<B_ran, B_plain>>] >>

\* a project at the cap of 3 bullets
ProjFull ==
  << [name |-> Shop, tech |-> Flask, bullets |-> <<B_ran, B_plain, B_used>>] >>

\* a resume record with its derived text, as format_resume_data builds it
MakeResume(phone, experience, projects, skills_list) ==
  LET data == [name |-> Ann, email |-> AnnMail, phone |-> phone,
               career_objective |-> Objective, education |-> Education,
               experience |-> experience, projects |-> projects,
               skills_list |-> skills_list,
               certifications_list |-> <<>>, achievements_list |-> <<>>,
               full_text |-> <<>>]
  IN [data EXCEPT !.full_text = _build_full_text(data)]

\* the experience and project sections that go together
SectionInputs ==
  {<< <<>>, <<>> >>, << <<>>, ProjOne >>, << <<>>, ProjFull >>,
   <<ExpOne, ProjOne>>, <<ExpTwo, <<>> >>}

\* a resume that already holds every skill the role "Intern" and the roles
\* related to it can offer
QuietResumes == {MakeResume(Phone, ExpOne, ProjOne, SkillsAnalyst)}

\* the resumes run against the role "Chef" of CatalogFive: one with none
\* of its 5 skills, one with 2 of them among 16
ChefResumes ==
  {MakeResume(Phone, ExpOne, ProjOne, SkillsTwo),
   MakeResume(Phone, ExpOne, ProjOne, SkillsChef)}

ResumeInputs ==
  {MakeResume(Phone, se[1], se[2], sk) : se \in SectionInputs, sk \in SkillInputs}
  \cup {MakeResume(<<>>, ExpOne, ProjOne, sk) : sk \in {SkillsNone, SkillsTen}}
  \cup QuietResumes \cup ChefResumes

\* the resumes every role and catalog is run with
CoreResumes ==
  {MakeResume(Phone, ExpOne, ProjOne, SkillsTwo),
   MakeResume(Phone, <<>>, ProjOne, SkillsNone),
   MakeResume(Phone, ExpTwo, <<>>, SkillsTen)}

(***************************************************************************)
(* Inputs of the direct calls of the scorer, the classifier and the polish  *)
(***************************************************************************)
\* "HTML", "css", "JavaScript", "React", "Node.js", "MongoDB", "Git", "REST APIs", "Docker", "AWS", "Python", "SQL", "Flask", "Java"
SkillsMany ==
  <<<<"H","T","M","L">>, <<"c","s","s">>, <<"J","a","v","a","S","c","r","i","p","t">>, <<"R","e","a","c","t">>, <<"N","o","d","e",".","j","s">>, <<"M","o","n","g","o","D","B">>, <<"G","i","t">>, <<"R","E","S","T"," ","A","P","I","s">>, <<"D","o","c","k","e","r">>, <<"A","W","S">>, <<"P","y","t","h","o","n">>, <<"S","Q","L">>, <<"F","l","a","s","k">>, <<"J","a","v","a">>>>

\* the skills a caller appends: "React", "html", "Excel"
AppendPool ==
  <<<<"R","e","a","c","t">>, <<"h","t","m","l">>, <<"E","x","c","e","l">>>>

\* "ML Engineer"
MLEngineer == <<"M","L"," ","E","n","g","i","n","e","e","r">>

\* the alphabet of the diversity inputs: "Python", "sql", "Git", "Statistics", "Jupyter", "SCIKIT-LEARN", "Excel"
DiversityPool ==
  <<<<"P","y","t","h","o","n">>, <<"s","q","l">>, <<"G","i","t">>, <<"S","t","a","t","i","s","t","i","c","s">>, <<"J","u","p","y","t","e","r">>, <<"S","C","I","K","I","T","-","L","E","A","R","N">>, <<"E","x","c","e","l">>>>

\* the alphabet of the classifier's lists: "sql", "SQL", "Git", "aws"
ClassifyPool ==
  <<<<"s","q","l">>, <<"S","Q","L">>, <<"G","i","t">>, <<"a","w","s">>>>

\* "Made ui and made api"
B_twice == <<"M","a","d","e"," ","u","i"," ","a","n","d"," ","m","a","d","e"," ","a","p","i">>

\* "Fixed bugs reducing errors"
B_errors == <<"F","i","x","e","d"," ","b","u","g","s"," ","r","e","d","u","c","i","n","g"," ","e","r","r","o","r","s">>

\* "Handled data"
B_handled == <<"H","a","n","d","l","e","d"," ","d","a","t","a">>

\* "Focused on brand"
B_focused == <<"F","o","c","u","s","e","d"," ","o","n"," ","b","r","a","n","d">>

BulletInputs ==
  {B_created, B_used, B_vague, B_plain, B_ran, B_twice, B_errors, B_handled,
   B_focused}

\* "Wide"
Wide == <<"W","i","d","e">>

Digits == <<"0","1","2","3","4","5","6","7","8","9">>

\* the i-th skill of the wide role: "k00", "k01", ...
WideSkill(i) == <<"k", Digits[(i \div 10) + 1], Digits[(i % 10) + 1]>>

\* a catalog whose one role requires r distinct skills
WideCatalog(r) ==
  << [role |-> Wide, skills |-> [i \in 1..r |-> WideSkill(i)]] >>

(***************************************************************************)
(* State                                                                   *)
(***************************************************************************)
VARIABLES
  job_roles,      \* the catalog in data/job_roles.json
  catalog_ok,     \* whether load_job_roles() can read it
  role,           \* the role the caller passed
  scoring_role,   \* refine_for_ats's scoring_role (<<>> before it is set)
  resume_data,    \* the resume record, mutated in place
  ats_result,     \* the latest score result
  pc,             \* the position in the running function
  attempt,        \* the critical loop's attempt
  hist,           \* history of the run (not program state)
  cls             \* the classifier's arguments and result

vars == <<job_roles, catalog_ok, role, scoring_role, resume_data, ats_result,
          pc, attempt, hist, cls>>

NoClassify == [M |-> <<>>, R |-> <<>>, out |-> [critical |-> <<>>, optional |-> <<>>]]

(***************************************************************************)
(* refine_for_ats, one action per stage                                    *)
(***************************************************************************)
Init ==
  /\ job_roles \in Catalogs \cup {CatalogFive}
  /\ catalog_ok \in BOOLEAN
  /\ role \in RoleInputs
  /\ scoring_role = <<>>
  /\ resume_data \in ResumeInputs
  /\ \/ /\ resume_data \in CoreResumes
        /\ job_roles \in Catalogs
     \/ /\ resume_data \in ChefResumes
        /\ job_roles = CatalogFive
        /\ catalog_ok
        /\ role = Chef
     \/ /\ job_roles = CRITICAL_SKILLS
        /\ catalog_ok
        /\ role \in {WebDeveloper, DataScientist, Chef}
     \/ /\ resume_data \in QuietResumes
        /\ job_roles = CatalogSparse
        /\ role = Intern
  /\ ats_result = NoResult
  /\ pc = "NORMALIZE"
  /\ attempt = 0
  /\ hist = [pre |-> resume_data,          \* the resume as passed in
             polished |-> resume_data,     \* the resume after the polish stage
             diversified |-> resume_data,  \* ... after the diversity stage
             passes |-> <<>>,              \* the score results, in order
             scored |-> <<>>,              \* the resume at each pass
             seen |-> <<>>,                \* parsed_data given to each pass
             roles_used |-> {},            \* roles passed to diversify/score
             n_critical |-> 0,             \* calls of the critical injector
             n_complementary |-> 0]        \* calls of the expander
  /\ cls = NoClassify

\* scoring_role = _normalize_role(role)
Normalize ==
  /\ pc = "NORMALIZE"
  /\ scoring_role' = _normalize_role(role, job_roles, catalog_ok)
  /\ pc' = "POLISH"
  /\ UNCHANGED <<job_roles, catalog_ok, role, resume_data, ats_result,
                 attempt, hist, cls>>

\* enhance_language_quality(resume_data)
Polish ==
  /\ pc = "POLISH"
  /\ resume_data' = enhance_language_quality(resume_data)
  /\ hist' = [hist EXCEPT !.polished = resume_data']
  /\ pc' = "DIVERSIFY"
  /\ UNCHANGED <<job_roles, catalog_ok, role, scoring_role, ats_result,
                 attempt, cls>>

\* validate_resume_diversity(resume_data, scoring_role)
Diversify ==
  /\ pc = "DIVERSIFY"
  /\ resume_data' = validate_resume_diversity(resume_data, scoring_role)
  /\ hist' = [hist EXCEPT !.diversified = resume_data',
                          !.roles_used = @ \cup {scoring_role}]
  /\ pc' = IF diversity_raises(resume_data, scoring_role)
           THEN "KEY_ERROR" ELSE "SCORE_1"
  /\ UNCHANGED <<job_roles, catalog_ok, role, scoring_role, ats_result,
                 attempt, cls>>

\* a plausible slip: the score is computed on the record as it stands,
\* without rebuilding the text
RebuildAndScore_stale(target, on_empty, on_missing) ==
  LET parsed == build_parsed_data(resume_data)
  IN /\ resume_data' = resume_data
     /\ IF catalog_ok
        THEN \E missing_list \in
                 Listings(missing_skills_of(parsed, scoring_role, job_roles)) :
               /\ ats_result' = calculate_ats_score(parsed, scoring_role,
                                                    job_roles, missing_list)
               /\ hist' = [hist EXCEPT !.passes = Append(@, ats_result'),
                                       !.scored = Append(@, resume_data),
                                       !.seen = Append(@, parsed),
                                       !.roles_used = @ \cup {scoring_role}]
               /\ pc' = IF ats_result'.ats_score >= target THEN "DONE"
                        ELSE IF ~Truthy(ats_result'.missing_skills)
                        THEN on_empty
                        ELSE on_missing
        ELSE /\ pc' = "RAISED"
             /\ UNCHANGED <<ats_result, hist>>

\* _rebuild_and_score(resume_data, scoring_role, calculate_ats_score): the
\* text is rebuilt, then the score is computed; control goes to DONE when
\* ats_score >= target, else to on_empty when no skill is missing, else to
\* on_missing; load_job_roles() raising FileNotFoundError ends the run
RebuildAndScore(target, on_empty, on_missing) ==
  LET rebuilt == [resume_data EXCEPT !.full_text = _build_full_text(resume_data)]
      parsed == build_parsed_data(rebuilt)
  IN /\ resume_data' = rebuilt
     /\ IF catalog_ok
        THEN \E missing_list \in
                 Listings(missing_skills_of(parsed, scoring_role, job_roles)) :
               /\ ats_result' = calculate_ats_score(parsed, scoring_role,
                                                    job_roles, missing_list)
               /\ hist' = [hist EXCEPT !.passes = Append(@, ats_result'),
                                       !.scored = Append(@, rebuilt),
                                       !.seen = Append(@, parsed),
                                       !.roles_used = @ \cup {scoring_role}]
               /\ pc' = IF ats_result'.ats_score >= target THEN "DONE"
                        ELSE IF ~Truthy(ats_result'.missing_skills)
                        THEN on_empty
                        ELSE on_missing
        ELSE /\ pc' = "RAISED"
             /\ UNCHANGED <<ats_result, hist>>

\* a plausible slip: the first score returns only above 90
Score1_above_90 ==
  /\ pc = "SCORE_1"
  /\ RebuildAndScore(91, "CRITICAL", "CRITICAL")
  /\ attempt' = 0
  /\ UNCHANGED <<job_roles, catalog_ok, role, scoring_role, cls>>

\* lines 626-629: the first score; >= 90 returns
Score1 ==
  /\ pc = "SCORE_1"
  /\ RebuildAndScore(90, "CRITICAL", "CRITICAL")
  /\ attempt' = 0
  /\ UNCHANGED <<job_roles, catalog_ok, role, scoring_role, cls>>

\* a plausible slip: the injector reads missing[0] before testing the list,
\* so a call with nothing to inject ends the run with an IndexError
Critical_raises_on_empty ==
  /\ pc = "CRITICAL"
  /\ attempt < max_attempts
  /\ resume_data' = inject_missing_role_skills(resume_data, ats_result,
                                               scoring_role)
  /\ hist' = [hist EXCEPT !.n_critical = @ + 1]
  /\ pc' = IF Truthy(ats_result.missing_skills) THEN "SCORE_2" ELSE "RAISED"
  /\ UNCHANGED <<job_roles, catalog_ok, role, scoring_role, ats_result,
                 attempt, cls>>

\* line 633: inject_missing_role_skills(resume_data, ats_result, scoring_role)
Critical ==
  /\ pc = "CRITICAL"
  /\ attempt < max_attempts
  /\ resume_data' = IF injection_raises(resume_data, ats_result)
                    THEN resume_data
                    ELSE inject_missing_role_skills(resume_data, ats_result,
                                                    scoring_role)
  /\ hist' = [hist EXCEPT !.n_critical = @ + 1]
  /\ pc' = IF injection_raises(resume_data, ats_result)
           THEN "KEY_ERROR" ELSE "SCORE_2"
  /\ UNCHANGED <<job_roles, catalog_ok, role, scoring_role, ats_result,
                 attempt, cls>>

\* a plausible slip: the loop does not stop when no skill is missing
Score2_no_break ==
  /\ pc = "SCORE_2"
  /\ RebuildAndScore(90,
                     IF attempt + 1 < max_attempts THEN "CRITICAL"
                     ELSE "COMPLEMENTARY",
                     IF attempt + 1 < max_attempts THEN "CRITICAL"
                     ELSE "COMPLEMENTARY")
  /\ attempt' = attempt + 1
  /\ UNCHANGED <<job_roles, catalog_ok, role, scoring_role, cls>>

\* a plausible slip: the loop re-scores without counting the attempt
Score2_no_count ==
  /\ pc = "SCORE_2"
  /\ RebuildAndScore(90, "COMPLEMENTARY", "CRITICAL")
  /\ attempt' = attempt
  /\ UNCHANGED <<job_roles, catalog_ok, role, scoring_role, cls>>

\* a plausible slip: with no skill missing the loop returns instead of
\* breaking
Score2_return_on_empty ==
  /\ pc = "SCORE_2"
  /\ RebuildAndScore(90, "DONE",
                     IF attempt + 1 < max_attempts THEN "CRITICAL"
                     ELSE "COMPLEMENTARY")
  /\ attempt' = attempt + 1
  /\ UNCHANGED <<job_roles, catalog_ok, role, scoring_role, cls>>

\* lines 634-641: the re-score of the loop; >= 90 returns, no missing skill
\* or the last attempt leaves the loop
Score2 ==
  /\ pc = "SCORE_2"
  /\ RebuildAndScore(90, "COMPLEMENTARY",
                     IF attempt + 1 < max_attempts THEN "CRITICAL"
                     ELSE "COMPLEMENTARY")
  /\ attempt' = attempt + 1
  /\ UNCHANGED <<job_roles, catalog_ok, role, scoring_role, cls>>

\* a plausible slip: the expander's loop never stops at max_to_add
Complementary_no_break ==
  /\ pc = "COMPLEMENTARY"
  /\ ats_result.ats_score < 90
  /\ resume_data' =
       [resume_data EXCEPT !.skills_list =
          add_candidates_no_break(@,
            complementary_candidates(scoring_role, ROLE_SKILLS, job_roles),
            LowerSet(resume_data.skills_list), {}, 0, 1)]
  /\ hist' = [hist EXCEPT !.n_complementary = @ + 1]
  /\ pc' = "SCORE_FINAL"
  /\ UNCHANGED <<job_roles, catalog_ok, role, scoring_role, ats_result,
                 attempt, cls>>

\* lines 644-645: after the loop the score is below 90 (a score of 90 or
\* more returned inside it), so the expander runs
Complementary ==
  /\ pc = "COMPLEMENTARY"
  /\ ats_result.ats_score < 90
  /\ resume_data' = IF expansion_raises(resume_data)
                    THEN resume_data
                    ELSE inject_complementary_skills(resume_data, scoring_role,
                                                     ROLE_SKILLS, job_roles)
  /\ hist' = [hist EXCEPT !.n_complementary = @ + 1]
  /\ pc' = IF expansion_raises(resume_data) THEN "KEY_ERROR" ELSE "SCORE_FINAL"
  /\ UNCHANGED <<job_roles, catalog_ok, role, scoring_role, ats_result,
                 attempt, cls>>

\* a plausible slip: the run returns after the expander without re-scoring
ScoreFinal_no_rescore ==
  /\ pc = "SCORE_FINAL"
  /\ pc' = "DONE"
  /\ UNCHANGED <<job_roles, catalog_ok, role, scoring_role, resume_data,
                 ats_result, attempt, hist, cls>>

\* lines 646-648: the final score, then return resume_data, ats_result
ScoreFinal ==
  /\ pc = "SCORE_FINAL"
  /\ RebuildAndScore(90, "DONE", "DONE")
  /\ UNCHANGED <<job_roles, catalog_ok, role, scoring_role, attempt, cls>>

Next ==
  \/ Normalize
  \/ Polish
  \/ Diversify
  \/ Score1
  \/ Critical
  \/ Score2
  \/ Complementary
  \/ ScoreFinal

Spec == Init /\ [][Next]_vars
(***************************************************************************)
(* calculate_ats_score called directly, on a resume a caller appends       *)
(* skills to between the calls (specification SpecScore)                   *)
(***************************************************************************)
MaxAppends == 2

NoHist ==
  [pre |-> <<>>, polished |-> <<>>, diversified |-> <<>>, passes |-> <<>>,
   scored |-> <<>>, seen |-> <<>>, roles_used |-> {}, n_critical |-> 0,
   n_complementary |-> 0]

\* the resume with another name and e-mail, and its derived text
WithIdentity(resume, name, email) ==
  LET data == [resume EXCEPT !.name = name, !.email = email]
  IN [data EXCEPT !.full_text = _build_full_text(data)]

ScoreResumes ==
  {WithIdentity(MakeResume(id[3], ExpOne, <<>>, sk), id[1], id[2]) :
     id \in {<<Ann, AnnMail, Phone>>, << <<>>, <<>>, <<>> >>},
     sk \in {SkillsNone, SkillsTwo, SkillsWeb, SkillsBroad, SkillsMany}}

ScoreRoles == {WebDeveloper, DataAnalyst, Chef, DefaultRole}

InitScore ==
  /\ job_roles \in Catalogs
  /\ catalog_ok \in BOOLEAN
  /\ role \in ScoreRoles
  /\ scoring_role = role
  /\ resume_data \in ScoreResumes
  /\ catalog_ok \/ resume_data.skills_list = SkillsTwo
  /\ ats_result = NoResult
  /\ pc = "READY"
  /\ attempt = 0
  /\ hist = [NoHist EXCEPT !.pre = resume_data]
  /\ cls = NoClassify

\* calculate_ats_score(build_parsed_data(resume_data), role)
ScoreCall ==
  /\ pc = "READY"
  /\ IF catalog_ok
     THEN \E missing_list \in
              Listings(missing_skills_of(build_parsed_data(resume_data),
                                         role, job_roles)) :
            /\ ats_result' = calculate_ats_score(
                               build_parsed_data(resume_data), role,
                               job_roles, missing_list)
            /\ pc' = "SCORED"
     ELSE /\ pc' = "RAISED"
          /\ UNCHANGED ats_result
  /\ UNCHANGED <<job_roles, catalog_ok, role, scoring_role, resume_data,
                 attempt, hist, cls>>

\* resume_data["skills_list"].append(skill), as the stages do it; the
\* caller keeps the scores and the missing skills of the result it had
\* (hist.passes) and the skill it appended (hist.scored), and drops the
\* result record
AppendSkill ==
  /\ pc = "SCORED"
  /\ attempt < MaxAppends
  /\ \E i \in DOMAIN AppendPool :
       /\ resume_data' = [resume_data EXCEPT !.skills_list =
                            Append(@, AppendPool[i])]
       /\ hist' = [hist EXCEPT
                     !.passes = <<[ats_result EXCEPT
                                     !.missing_skills = Range(@),
                                     !.missing_classified = <<>>]>>,
                     !.scored = <<AppendPool[i]>>]
  /\ ats_result' = NoResult
  /\ attempt' = attempt + 1
  /\ pc' = "READY"
  /\ UNCHANGED <<job_roles, catalog_ok, role, scoring_role, cls>>

NextScore == ScoreCall \/ AppendSkill

SpecScore == InitScore /\ [][NextScore]_vars

(***************************************************************************)
(* calculate_ats_score on a role with many required skills                 *)
(* (specification SpecScoreWide)                                           *)
(***************************************************************************)
WideRequired == 50

InitScoreWide ==
  /\ \E r \in (WideRequired - 2)..WideRequired : job_roles = WideCatalog(r)
  /\ catalog_ok = TRUE
  /\ role = Wide
  /\ scoring_role = role
  /\ resume_data \in {MakeResume(ph, <<>>, <<>>, <<>>) : ph \in {Phone, <<>>}}
  /\ ats_result = NoResult
  /\ pc = "READY"
  /\ attempt = 0
  /\ hist = [NoHist EXCEPT !.pre = resume_data]
  /\ cls = NoClassify

\* calculate_ats_score(build_parsed_data(resume_data), role).  Of the
\* listings of the missing skills only the one in catalog order is
\* explored (the wide catalog's skills are lower-case as written): the
\* scores do not read the order.
ScoreCallWide ==
  /\ pc = "READY"
  /\ \E missing \in {missing_skills_of(build_parsed_data(resume_data), role,
                                        job_roles)} :
       ats_result' = calculate_ats_score(
                       build_parsed_data(resume_data), role, job_roles,
                       SelectSeq(CatalogGet(job_roles, role),
                                 LAMBDA s : s \in missing))
  /\ pc' = "SCORED"
  /\ UNCHANGED <<job_roles, catalog_ok, role, scoring_role, resume_data,
                 attempt, hist, cls>>

\* the caller appends the role's next required skill
AppendWide ==
  /\ pc = "SCORED"
  /\ Len(resume_data.skills_list) < Len(CatalogGet(job_roles, role))
  /\ resume_data' = [resume_data EXCEPT !.skills_list =
                       Append(@, WideSkill(Len(@) + 1))]
  /\ pc' = "READY"
  /\ UNCHANGED <<job_roles, catalog_ok, role, scoring_role, ats_result,
                 attempt, hist, cls>>

NextScoreWide == ScoreCallWide \/ AppendWide

SpecScoreWide == InitScoreWide /\ [][NextScoreWide]_vars

(***************************************************************************)
(* classify_missing_skills called directly (specification SpecClassify)    *)
(***************************************************************************)
MaxMissing == 3
MaxRequired == 2

\* the lists over ClassifyPool of at most n entries
ListsUpTo(n) ==
  UNION {[1..k -> Range(ClassifyPool)] : k \in 0..n}

InitClassify ==
  /\ job_roles = <<>>
  /\ catalog_ok = TRUE
  /\ role = DefaultRole
  /\ scoring_role = role
  /\ resume_data = MakeResume(Phone, <<>>, <<>>, <<>>)
  /\ ats_result = NoResult
  /\ pc = "CLASSIFY"
  /\ attempt = 0
  /\ hist = NoHist
  /\ \E M \in ListsUpTo(MaxMissing), R \in ListsUpTo(MaxRequired) :
       cls = [NoClassify EXCEPT !.M = M, !.R = R]

Classify ==
  /\ pc = "CLASSIFY"
  /\ cls' = [cls EXCEPT !.out = classify_missing_skills(role, cls.M, cls.R)]
  /\ pc' = "CLASSIFIED"
  /\ UNCHANGED <<job_roles, catalog_ok, role, scoring_role, resume_data,
                 ats_result, attempt, hist>>

NextClassify == Classify

SpecClassify == InitClassify /\ [][NextClassify]_vars

(***************************************************************************)
(* enhance_language_quality called twice in succession                     *)
(* (specification SpecPolish)                                              *)
(***************************************************************************)
InitPolish ==
  /\ job_roles = <<>>
  /\ catalog_ok = TRUE
  /\ role = DefaultRole
  /\ scoring_role = role
  /\ \E b1 \in BulletInputs, b2 \in BulletInputs :
       resume_data =
         MakeResume(Phone,
                    << [title |-> Engineer, company |-> Acme,
                        duration |-> Y2024, bullets |-> <<b1>>] >>,
                    << [name |-> Shop, tech |-> Flask,
                        bullets |-> <<b2>>] >>,
                    SkillsTwo)
  /\ ats_result = NoResult
  /\ pc = "POLISH_1"
  /\ attempt = 0
  /\ hist = [NoHist EXCEPT !.pre = resume_data]
  /\ cls = NoClassify

PolishOnce ==
  /\ pc = "POLISH_1"
  /\ resume_data' = enhance_language_quality(resume_data)
  /\ hist' = [hist EXCEPT !.polished = resume_data']
  /\ pc' = "POLISH_2"
  /\ UNCHANGED <<job_roles, catalog_ok, role, scoring_role, ats_result,
                 attempt, cls>>

PolishAgain ==
  /\ pc = "POLISH_2"
  /\ resume_data' = enhance_language_quality(resume_data)
  /\ pc' = "POLISHED"
  /\ UNCHANGED <<job_roles, catalog_ok, role, scoring_role, ats_result,
                 attempt, hist, cls>>

NextPolish == PolishOnce \/ PolishAgain

SpecPolish == InitPolish /\ [][NextPolish]_vars


(***************************************************************************)
(* refine_for_ats called with a record whose "skills_list" key may be      *)
(* absent (specification SpecShape)                                        *)
(***************************************************************************)
\* the record without its "skills_list" key, its text built from the rest
without_skills_list(resume) ==
  LET data == [k \in DOMAIN resume \ {"skills_list"} |-> resume[k]]
  IN [data EXCEPT !.full_text = _build_full_text(data)]

ShapeResumes ==
  CoreResumes \cup {without_skills_list(resume) : resume \in CoreResumes}

ShapeRoles == {WebDeveloper, Intern, Chef}

InitShape ==
  /\ job_roles \in Catalogs
  /\ catalog_ok \in BOOLEAN
  /\ role \in ShapeRoles
  /\ scoring_role = <<>>
  /\ resume_data \in ShapeResumes
  /\ ats_result = NoResult
  /\ pc = "NORMALIZE"
  /\ attempt = 0
  /\ hist = [NoHist EXCEPT !.pre = resume_data, !.polished = resume_data,
                           !.diversified = resume_data]
  /\ cls = NoClassify

SpecShape == InitShape /\ [][Next]_vars

(***************************************************************************)
(* validate_resume_diversity called twice in succession                    *)
(* (specification SpecDiversify)                                           *)
(***************************************************************************)
MaxSkills == 2

DiversityRoles ==
  {WebDeveloper, BackendDeveloper, DataAnalyst, MLEngineer, DefaultRole,
   Intern}

\* the skill lists over DiversityPool of at most MaxSkills entries
DiversityLists ==
  UNION {[1..k -> Range(DiversityPool)] : k \in 0..MaxSkills}

InitDiversify ==
  /\ job_roles = <<>>
  /\ catalog_ok = TRUE
  /\ role \in DiversityRoles
  /\ scoring_role = role
  /\ \E sk \in DiversityLists :
       resume_data = MakeResume(Phone, ExpOne, ProjOne, sk)
  /\ ats_result = NoResult
  /\ pc = "DIVERSIFY_1"
  /\ attempt = 0
  /\ hist = [NoHist EXCEPT !.pre = resume_data]
  /\ cls = NoClassify

DiversifyOnce ==
  /\ pc = "DIVERSIFY_1"
  /\ resume_data' = validate_resume_diversity(resume_data, role)
  /\ hist' = [hist EXCEPT !.diversified = resume_data']
  /\ pc' = "DIVERSIFY_2"
  /\ UNCHANGED <<job_roles, catalog_ok, role, scoring_role, ats_result,
                 attempt, cls>>

DiversifyAgain ==
  /\ pc = "DIVERSIFY_2"
  /\ resume_data' = validate_resume_diversity(resume_data, role)
  /\ pc' = "DIVERSIFIED"
  /\ UNCHANGED <<job_roles, catalog_ok, role, scoring_role, ats_result,
                 attempt, hist, cls>>

NextDiversify == DiversifyOnce \/ DiversifyAgain

SpecDiversify == InitDiversify /\ [][NextDiversify]_vars

(***************************************************************************)
(* inject_missing_role_skills called directly, with any missing list       *)
(* (specification SpecInject)                                              *)
(***************************************************************************)
\* two experience entries below the cap of 4 bullets
ExpOpen ==
  << [title |-> Engineer, company |-> Acme, duration |-> Y2024,
      bullets |-> <<B_created>>],
     [title |-> Analyst, company |-> Acme, duration |-> Y2024,
      bullets |-> <<B_plain, B_used>>] >>

\* two projects, the first without bullets
ProjTwo ==
  << [name |-> Shop, tech |-> Flask, bullets |-> <<>>],
     [name |-> Acme, tech |-> Flask, bullets |-> <<B_ran>>] >>

InjectSections ==
  {<< <<>>, <<>> >>, <<ExpOne, ProjOne>>, <<ExpOpen, ProjTwo>>,
   <<ExpTwo, ProjOne>>, << <<>>, ProjTwo >>, << <<>>, ProjFull >>}

InitInject ==
  /\ job_roles = <<>>
  /\ catalog_ok = TRUE
  /\ role = DefaultRole
  /\ scoring_role = role
  /\ \E se \in InjectSections, sk \in {SkillsNone, SkillsTwo} :
       resume_data = MakeResume(Phone, se[1], se[2], sk)
  /\ \E missing \in ListsUpTo(MaxMissing) :
       ats_result = [NoResult EXCEPT !.missing_skills = missing]
  /\ pc = "INJECT"
  /\ attempt = 0
  /\ hist = [NoHist EXCEPT !.pre = resume_data]
  /\ cls = NoClassify

\* inject_missing_role_skills(resume_data, ats_result, role)
InjectCall ==
  /\ pc = "INJECT"
  /\ resume_data' = inject_missing_role_skills(resume_data, ats_result, role)
  /\ pc' = "INJECTED"
  /\ UNCHANGED <<job_roles, catalog_ok, role, scoring_role, ats_result,
                 attempt, hist, cls>>

NextInject == InjectCall

SpecInject == InitInject /\ [][NextInject]_vars
(***************************************************************************)
(* Properties of refine_for_ats (specification Spec)                       *)
(***************************************************************************)
IsPrefix(s, t) == Len(s) <= Len(t) /\ SubSeq(t, 1, Len(s)) = s

Returned == pc = "DONE"

\* the skills, the bullets and the other fields of the sections are those of d
SameContent(d) ==
  /\ resume_data.skills_list = d.skills_list
  /\ resume_data.experience = d.experience
  /\ resume_data.projects = d.projects
  /\ resume_data.education = d.education

\* C1: when the first score is 90 or more the run has returned at once: one
\* scoring pass, no call of either injector, and the skills and bullets are
\* those left by the polish and diversity stages.
C1_EarlyExit ==
  (Len(hist.passes) >= 1 /\ hist.passes[1].ats_score >= 90)
    => /\ Returned
       /\ Len(hist.passes) = 1
       /\ ats_result = hist.passes[1]
       /\ hist.n_critical = 0
       /\ hist.n_complementary = 0
       /\ SameContent(hist.diversified)

C1_Witness ==
  /\ Returned
  /\ Len(hist.passes) = 1
  /\ hist.passes[1].ats_score >= 90
  /\ hist.diversified.experience # hist.pre.experience

Growth == Len(resume_data.skills_list) - Len(hist.pre.skills_list)

\* C2 as stated: after a full run the skills list has grown by at most
\* 9 = 2 + 2 + 5 entries.
C2_GrowthAtMost9 == Returned => Growth <= 9

\* C2 as amended: the skills list grows by at most 13 entries: at most 4 in
\* the diversity stage (one per category), at most 2 in each of the at most
\* 2 calls of the critical injector, at most 5 in the complementary stage.
C2_GrowthAtMost13 ==
  /\ Growth <= 13
  /\ Len(hist.diversified.skills_list) - Len(hist.pre.skills_list) <= 4
  /\ hist.n_critical <= 2
  /\ hist.n_complementary <= 1
  /\ Growth <= 4 + 2 * hist.n_critical + 5 * hist.n_complementary

C2_Witness ==
  /\ Returned
  /\ Growth = 13
  /\ Len(hist.diversified.skills_list) - Len(hist.pre.skills_list) = 4
  /\ hist.n_critical = 2
  /\ hist.n_complementary = 1

\* entry by entry, the sections are those of d but for their bullets, and
\* each entry's bullets start with the bullets keep(...) of d's entry
Polished(bullets) ==
  [j \in DOMAIN bullets |-> _enhance_single_bullet(bullets[j])]

\* the sections of resume_data have the entries of d in order, and every
\* entry starts with the bullets d had (in their polished form when
\* as_polished)
SectionsKept(d, as_polished) ==
  LET keep(bullets) == IF as_polished THEN Polished(bullets) ELSE bullets
  IN
    /\ resume_data.education = d.education
    /\ Len(resume_data.experience) = Len(d.experience)
    /\ Len(resume_data.projects) = Len(d.projects)
    /\ \A i \in DOMAIN d.experience :
         /\ [resume_data.experience[i] EXCEPT !.bullets = <<>>]
              = [d.experience[i] EXCEPT !.bullets = <<>>]
         /\ IsPrefix(keep(d.experience[i].bullets),
                     resume_data.experience[i].bullets)
    /\ \A i \in DOMAIN d.projects :
         /\ [resume_data.projects[i] EXCEPT !.bullets = <<>>]
              = [d.projects[i] EXCEPT !.bullets = <<>>]
         /\ IsPrefix(keep(d.projects[i].bullets),
                     resume_data.projects[i].bullets)

\* C3 as stated: in every state of a run the pre-run skills list is a prefix
\* of the current one, the sections have the same entries in the same
\* order, and every entry still has its pre-run bullets at their positions.
C3_AdditiveOnly ==
  /\ IsPrefix(hist.pre.skills_list, resume_data.skills_list)
  /\ SectionsKept(hist.pre, FALSE)

\* C3 as amended: as stated, except that from the polish stage on every
\* pre-run bullet is at its position in its polished form
\* (_enhance_single_bullet of it); later stages only append.
C3_AdditiveAfterPolish ==
  /\ IsPrefix(hist.pre.skills_list, resume_data.skills_list)
  /\ IF pc \in {"NORMALIZE", "POLISH"}
     THEN SectionsKept(hist.pre, FALSE)
     ELSE /\ SectionsKept(hist.pre, TRUE)
          /\ SectionsKept(hist.polished, FALSE)

\* a run that rewrote a bullet, appended skills and met an entry at its cap
C3_Witness ==
  /\ Returned
  /\ hist.n_critical = 2
  /\ hist.polished.experience # hist.pre.experience
  /\ Len(resume_data.skills_list) > Len(hist.pre.skills_list)
  /\ \E i \in DOMAIN resume_data.experience :
       /\ Len(hist.pre.experience[i].bullets) = 4
       /\ Len(resume_data.experience[i].bullets) = 4
  /\ \E i \in DOMAIN resume_data.experience :
       Len(resume_data.experience[i].bullets)
         > Len(hist.pre.experience[i].bullets)

CatalogRoles == {job_roles[i].role : i \in DOMAIN job_roles}

\* C9, for a catalog that load_job_roles() could read: the role
\* _normalize_role returns is a key of the catalog, on the verbatim, the
\* alias and the default-fallback path alike.
C9_CanonicalRole ==
  (pc # "NORMALIZE" /\ catalog_ok) => scoring_role \in CatalogRoles

\* the alias table's targets for r, lower-cased, that are catalog roles
AliasTargets(r) ==
  {_ROLE_ALIASES[i][2] : i \in {j \in DOMAIN _ROLE_ALIASES :
                                  _ROLE_ALIASES[j][1] = lower(r)}}
    \cap CatalogRoles

C4_PolishIdempotent ==
  pc = "POLISHED" =>
    /\ resume_data.experience = hist.polished.experience
    /\ resume_data.projects = hist.polished.projects

(***************************************************************************)
(* Properties of calculate_ats_score (specifications SpecScoreWide and     *)
(* SpecScore)                                                              *)
(***************************************************************************)
Min(a, b) == IF a < b THEN a ELSE b

\* the lower-cased skills of the resume, those of the role, and the matches
DistinctSkills == {lower(s) : s \in Range(resume_data.skills_list)}

RequiredSkills == {lower(s) : s \in Range(CatalogGet(job_roles, role))}

MatchedSkills == DistinctSkills \cap RequiredSkills

NonEmptyFields ==
  Cardinality({f \in {"name", "email", "phone", "skills_list"} :
                 resume_data[f] # <<>>})

\* C5: skill_score = floor(50 * |matched| / |required|) (0 for no required
\* skill), keyword_score = min(2 * |distinct lower-cased skills|, 30),
\* completeness_score = 5 per non-empty field of name, email, phone, skills,
\* ats_score = min(their sum, 100); each within its range.
C5_ScoreFormula ==
  pc = "SCORED" =>
    /\ ats_result.skill_score =
         (IF RequiredSkills = {} THEN 0
          ELSE (50 * Cardinality(MatchedSkills))
                 \div Cardinality(RequiredSkills))
    /\ ats_result.keyword_score = Min(2 * Cardinality(DistinctSkills), 30)
    /\ ats_result.completeness_score = 5 * NonEmptyFields
    /\ ats_result.ats_score =
         Min(ats_result.skill_score + ats_result.keyword_score
               + ats_result.completeness_score, 100)
    /\ ats_result.skill_score \in 0..50
    /\ ats_result.keyword_score \in 0..30
    /\ ats_result.completeness_score \in 0..20
    /\ ats_result.ats_score \in 0..100

\* C6: after a skill is appended to the resume's skill list, with role,
\* catalog, name, e-mail and phone as they were, the new ats_score is at
\* least the old one; and when the appended skill was a missing required
\* skill the new skill_score is at least the old one.
C6_ScoreMonotone ==
  (pc = "SCORED" /\ hist.passes # <<>>) =>
    /\ ats_result.ats_score >= hist.passes[1].ats_score
    /\ lower(hist.scored[1]) \in hist.passes[1].missing_skills
         => ats_result.skill_score >= hist.passes[1].skill_score

\* a missing required skill was appended and the skill score rose
C6_Witness ==
  /\ pc = "SCORED"
  /\ hist.passes # <<>>
  /\ lower(hist.scored[1]) \in hist.passes[1].missing_skills
  /\ hist.scored[1] # lower(hist.scored[1])
  /\ ats_result.skill_score > hist.passes[1].skill_score
  /\ ats_result.ats_score > hist.passes[1].ats_score

\* C8: for a role that is absent from the catalog or has no required skill
\* the call returns a result with skill_score 0 and no matched and no
\* missing skill, whatever the resume's skills; keyword_score and
\* completeness_score are computed as for any role.
C8_CatalogMiss ==
  (catalog_ok /\ pc # "READY"
     /\ (role \notin CatalogRoles \/ CatalogGet(job_roles, role) = <<>>)) =>
    /\ pc = "SCORED"
    /\ ats_result.skill_score = 0
    /\ ats_result.matched_skills = {}
    /\ ats_result.missing_skills = <<>>
    /\ ats_result.missing_classified = [critical |-> <<>>, optional |-> <<>>]
    /\ ats_result.keyword_score = Min(2 * Cardinality(DistinctSkills), 30)
    /\ ats_result.completeness_score = 5 * NonEmptyFields
    /\ ats_result.ats_score =
         ats_result.keyword_score + ats_result.completeness_score

\* a role absent from the catalog scored on a resume of 15 or more skills
C8_Witness ==
  /\ pc = "SCORED"
  /\ catalog_ok
  /\ role \notin CatalogRoles
  /\ Cardinality(DistinctSkills) >= 15
  /\ ats_result.skill_score = 0
  /\ ats_result.keyword_score = 30
  /\ ats_result.ats_score = 50

(***************************************************************************)
(* Properties of classify_missing_skills (specification SpecClassify)      *)
(***************************************************************************)
\* how often x occurs in the list s
Count(x, s) == Cardinality({i \in DOMAIN s : s[i] = x})

\* s is t with some entries left out, the rest in t's order
RECURSIVE IsSubsequence(_, _)
IsSubsequence(s, t) ==
  IF s = <<>> THEN TRUE
  ELSE IF t = <<>> THEN FALSE
  ELSE IF s[1] = t[1] THEN IsSubsequence(Tail(s), Tail(t))
  ELSE IsSubsequence(s, Tail(t))

\* x is, lower-cased, the lower-cased form of an entry of R
InRequired(x, R) == \E j \in DOMAIN R : lower(R[j]) = lower(x)

\* C7: critical holds exactly the entries of M that are, lower-cased, in R
\* lower-cased, in M's order; optional holds the other entries of M; the two
\* are disjoint and together hold every entry of M as often as M does.
C7_Partition ==
  pc = "CLASSIFIED" =>
    LET critical == cls.out.critical
        optional == cls.out.optional
    IN /\ \A i \in DOMAIN critical : InRequired(critical[i], cls.R)
       /\ \A i \in DOMAIN optional : ~InRequired(optional[i], cls.R)
       /\ \A x \in Range(cls.M) \cup Range(critical) \cup Range(optional) :
            Count(x, critical) + Count(x, optional) = Count(x, cls.M)
       /\ Range(critical) \cap Range(optional) = {}
       /\ IsSubsequence(critical, cls.M)
       /\ IsSubsequence(optional, cls.M)

\* both parts are non-empty and a critical entry matches only without case
C7_Witness ==
  /\ pc = "CLASSIFIED"
  /\ Len(cls.out.critical) >= 2
  /\ cls.out.optional # <<>>
  /\ \E i \in DOMAIN cls.out.critical :
       cls.out.critical[i] \notin Range(cls.R)


(***************************************************************************)
(* Bounded work, freshness and consistency of refine_for_ats               *)
(***************************************************************************)
\* the work done so far is within the budget of a run
WorkBounded ==
  /\ Len(hist.passes) <= 2 + max_attempts
  /\ hist.n_critical <= max_attempts
  /\ hist.n_complementary <= 1

\* the guards of the stages of Next: some stage can run
CanStep ==
  \/ pc \in {"NORMALIZE", "POLISH", "DIVERSIFY", "SCORE_1", "SCORE_2",
             "SCORE_FINAL"}
  \/ pc = "CRITICAL" /\ attempt < max_attempts
  \/ pc = "COMPLEMENTARY" /\ ats_result.ats_score < 90

Rank ==
  CASE pc = "NORMALIZE" -> 2 * max_attempts + 6
    [] pc = "POLISH" -> 2 * max_attempts + 5
    [] pc = "DIVERSIFY" -> 2 * max_attempts + 4
    [] pc = "SCORE_1" -> 2 * max_attempts + 3
    [] pc = "CRITICAL" -> 2 * (max_attempts - attempt) + 2
    [] pc = "SCORE_2" -> 2 * (max_attempts - attempt) + 1
    [] pc = "COMPLEMENTARY" -> 2
    [] pc = "SCORE_FINAL" -> 1
    [] OTHER -> 0

Fields(d) == [d EXCEPT !.full_text = <<>>]

\* C12: at every scoring call the text is the one built from the field
\* values the resume has at that moment (the fields the previous stage left,
\* rebuilt by the call itself before the score is computed), and the skills,
\* name, e-mail and phone given to the scorer are the current ones.
C12_FreshText ==
  /\ [](/\ Len(hist.seen) = Len(hist.passes)
        /\ Len(hist.scored) = Len(hist.passes)
        /\ \A i \in DOMAIN hist.seen :
             /\ hist.seen[i].text = _build_full_text(hist.scored[i])
             /\ hist.seen[i].text = hist.scored[i].full_text
             /\ hist.seen[i].skills = hist.scored[i].skills_list
             /\ hist.seen[i].name = hist.scored[i].name
             /\ hist.seen[i].email = hist.scored[i].email
             /\ hist.seen[i].phone = hist.scored[i].phone)
  /\ [][Len(hist'.passes) > Len(hist.passes) =>
          /\ Fields(hist'.scored[Len(hist'.scored)]) = Fields(resume_data)
          /\ resume_data' = hist'.scored[Len(hist'.scored)]]_vars

\* a pass after the critical injector wrote a bullet and a skill: the text
\* the scorer was given differs from the one of the pass before
C12_Witness ==
  /\ Len(hist.seen) >= 2
  /\ hist.n_critical >= 1
  /\ hist.seen[2].text # hist.seen[1].text
  /\ hist.seen[2].skills # hist.seen[1].skills
  /\ hist.scored[2].experience # hist.scored[1].experience

\* a listing of the set S: every element once
IsListing(l, S) == Range(l) = S /\ Len(l) = Cardinality(S)

\* C13: at every return the result is the one of the latest scoring pass,
\* the resume is as that pass left it, the result is what calculate_ats_score
\* gives for the returned resume and the canonical role (with the missing
\* skills in the order the result lists them), and the returned text is the
\* one built from the returned fields.
C13_ResultConsistent ==
  pc = "DONE" =>
    LET parsed == build_parsed_data(resume_data)
        n == Len(hist.passes)
    IN /\ n >= 1
       /\ ats_result = hist.passes[n]
       /\ resume_data = hist.scored[n]
       /\ resume_data.full_text = _build_full_text(resume_data)
       /\ IsListing(ats_result.missing_skills,
                    missing_skills_of(parsed, scoring_role, job_roles))
       /\ ats_result = calculate_ats_score(parsed, scoring_role, job_roles,
                                           ats_result.missing_skills)

\* a return after the expander added skills: the returned result is the
\* fourth pass's and differs from the third's
C13_Witness ==
  /\ pc = "DONE"
  /\ Len(hist.passes) = 4
  /\ hist.n_complementary = 1
  /\ hist.scored[4].skills_list # hist.scored[3].skills_list
  /\ ats_result.ats_score > hist.passes[3].ats_score

\* C14: the critical loop runs the injector, then re-scores, at most 2
\* times. After a re-score of 90 or more the run returns at once; after a
\* lower re-score with no missing skill it goes to the complementary stage;
\* otherwise the injector runs again if it has run once, and the run goes to
\* the complementary stage if it has run twice.
C14_LoopExit ==
  /\ [](hist.n_critical <= 2)
  /\ [][pc = "CRITICAL" =>
          /\ hist'.n_critical = hist.n_critical + 1
          /\ pc' = "SCORE_2"]_vars
  /\ [][pc = "SCORE_2" =>
          /\ Len(hist'.passes) = Len(hist.passes) + 1
          /\ ats_result' = hist'.passes[Len(hist'.passes)]
          /\ pc' = IF ats_result'.ats_score >= 90 THEN "DONE"
                   ELSE IF ats_result'.missing_skills = <<>>
                   THEN "COMPLEMENTARY"
                   ELSE IF hist.n_critical < 2 THEN "CRITICAL"
                   ELSE "COMPLEMENTARY"]_vars

\* the loop left after its first attempt, below 90, with no skill missing
C14_Witness ==
  /\ pc = "COMPLEMENTARY"
  /\ hist.n_critical = 1
  /\ ats_result.ats_score < 90
  /\ ats_result.missing_skills = <<>>
  /\ hist.passes[1].missing_skills # <<>>

\* C15: a run's outcome does not depend on the order in which list() yields
\* the set of missing skills: whenever the critical injector is about to
\* run, it would write the same skills and bullets, in the same order, for
\* every listing of the missing skills the scorer could have returned, so
\* that two runs from equal inputs return equal content.
C15_OrderIndependent ==
  (pc = "CRITICAL" /\ attempt < max_attempts) =>
    \A other \in Listings(Range(ats_result.missing_skills)) :
      inject_missing_role_skills(
        resume_data, [ats_result EXCEPT !.missing_skills = other],
        scoring_role)
      = inject_missing_role_skills(resume_data, ats_result, scoring_role)

\* no two entries of a skills list have the same lower-cased form
UniqueSkills(skills_list) ==
  \A i, j \in DOMAIN skills_list :
    lower(skills_list[i]) = lower(skills_list[j]) => i = j

\* C16: every stage of a run keeps a skills list free of entries with the
\* same lower-cased form, so a run that starts from such a list has one in
\* every state.
C16_UniquePreserved ==
  /\ [](UniqueSkills(hist.pre.skills_list)
          => UniqueSkills(resume_data.skills_list))
  /\ [][UniqueSkills(resume_data.skills_list)
          => UniqueSkills(resume_data'.skills_list)]_vars

\* a run in which the diversity stage, the critical injector and the
\* expander all appended to a list that holds upper-case entries
C16_Witness ==
  /\ pc = "DONE"
  /\ hist.pre.skills_list # <<>>
  /\ \E i \in DOMAIN hist.pre.skills_list :
       hist.pre.skills_list[i] # lower(hist.pre.skills_list[i])
  /\ Len(hist.diversified.skills_list) > Len(hist.pre.skills_list)
  /\ hist.n_critical >= 1
  /\ Len(hist.scored[2].skills_list) > Len(hist.diversified.skills_list)
  /\ hist.n_complementary = 1
  /\ Len(resume_data.skills_list)
       > Len(hist.scored[Len(hist.scored) - 1].skills_list)

\* every experience entry of d has at most 4 bullets, every project at most 3
WithinCaps(d) ==
  /\ \A i \in DOMAIN d.experience : Len(d.experience[i].bullets) <= 4
  /\ \A i \in DOMAIN d.projects : Len(d.projects[i].bullets) <= 3

\* the skills a call of the critical injector adds: the first 2 missing
\* skills that the list does not hold
Injected(missing, skills_list) ==
  SelectSeq(SubSeq(missing, 1, Min(2, Len(missing))),
            LAMBDA s : lower(s) \notin LowerSet(skills_list))

\* C17: a resume whose experience entries start with at most 4 bullets and
\* whose projects with at most 3 keeps these caps in every state; a call of
\* the critical injector appends its skills to the skills list whatever the
\* bullet counts are, and leaves the bullets of an entry at its cap as they
\* were.
C17_BulletCaps ==
  /\ [](WithinCaps(hist.pre) => WithinCaps(resume_data))
  /\ [][pc = "CRITICAL" =>
          /\ resume_data'.skills_list =
               resume_data.skills_list
               \o Injected(ats_result.missing_skills, resume_data.skills_list)
          /\ \A i \in DOMAIN resume_data.experience :
               Len(resume_data.experience[i].bullets) = 4 =>
                 resume_data'.experience[i] = resume_data.experience[i]
          /\ \A i \in DOMAIN resume_data.projects :
               Len(resume_data.projects[i].bullets) = 3 =>
                 resume_data'.projects[i] = resume_data.projects[i]
          /\ pc' = "SCORE_2"]_vars

\* the injector has just added two skills to a resume whose first experience
\* entry, the target of the first of them, was at its cap of 4 bullets: the
\* entry is as it was
C17_Witness ==
  /\ pc = "SCORE_2"
  /\ hist.n_critical = 1
  /\ resume_data.experience # <<>>
  /\ Len(hist.diversified.experience[1].bullets) = 4
  /\ resume_data.experience[1] = hist.diversified.experience[1]
  /\ Len(resume_data.skills_list) = Len(hist.diversified.skills_list) + 2

\* every candidate of the expander's pool is in the skills list already
PoolExhausted ==
  LET candidates == complementary_candidates(scoring_role, ROLE_SKILLS,
                                             job_roles)
  IN \A i \in DOMAIN candidates :
       lower(candidates[i]) \in LowerSet(resume_data.skills_list)

\* C18: a call of the critical injector with no missing skill and a call
\* of the expander whose pool holds nothing new leave the resume as it is;
\* the run goes on to the next stage, raises nothing once the first score
\* is computed, and returns from the final score whatever that score is.
C18_NoImprovementIsFine ==
  /\ [](pc = "RAISED" =>
          hist.passes = <<>> /\ hist.n_critical = 0
          /\ hist.n_complementary = 0)
  /\ [][(pc = "CRITICAL" /\ ats_result.missing_skills = <<>>) =>
          (resume_data' = resume_data /\ pc' = "SCORE_2")]_vars
  /\ [][(pc = "COMPLEMENTARY" /\ PoolExhausted) =>
          (resume_data' = resume_data /\ pc' = "SCORE_FINAL")]_vars
  /\ [][(pc \in {"SCORE_2", "SCORE_FINAL"}) =>
          (/\ pc' # "RAISED"
           /\ hist'.passes = Append(hist.passes, ats_result'))]_vars
  /\ [][(pc = "SCORE_FINAL") => (pc' = "DONE")]_vars

\* a run returned below 90 after an injector call with nothing missing and
\* an expander call with nothing new: the resume is as the diversity stage
\* left it
C18_Witness ==
  /\ pc = "DONE"
  /\ ats_result.ats_score < 90
  /\ hist.passes[1].missing_skills = <<>>
  /\ hist.n_critical = 1
  /\ hist.n_complementary = 1
  /\ Len(hist.passes) = 3
  /\ Fields(resume_data) = Fields(hist.diversified)

\* the resume lacks the "skills_list" key
LacksSkills == ~has_key(resume_data, "skills_list")

\* C19: for a resume without a skills list, the run changes nothing in the
\* record and completes no scoring pass (a pass on such a record scores a
\* substituted empty list), so the error it ends with is raised before any
\* mutation and before the first score, and the run never returns a result.
C19_ShapeCheckedFirst ==
  LacksSkills =>
    /\ resume_data = hist.pre
    /\ hist.passes = <<>>
    /\ pc # "DONE"

\* str.upper()
upper(s) == [i \in 1..Len(s) |-> UpperChar(s[i])]

\* the list in another order: every order for a list of up to 4 entries,
\* the reversed and the rotated list for a longer one
Reordered(l) ==
  IF Len(l) <= 4
  THEN {[i \in DOMAIN l |-> l[p[i]]] : p \in Listings(DOMAIN l)}
  ELSE {[i \in DOMAIN l |-> l[Len(l) + 1 - i]], Tail(l) \o <<Head(l)>>}

\* lists with the same set of lower-cased values as l: reordered, in
\* another letter case, with entries repeated
SkillVariants(l) ==
  LET lowered == [i \in DOMAIN l |-> lower(l[i])]
      uppered == [i \in DOMAIN l |-> upper(l[i])]
  IN Reordered(l) \cup Reordered(uppered)
     \cup {lowered, uppered, l \o l, l \o lowered, uppered \o l \o lowered}

\* C20: once a resume is scored, a resume that differs from it only in the
\* order, letter case or repetition of its skills gets the same skill,
\* keyword, completeness and total scores and the same sets of matched and
\* missing skills; the scoring call leaves the resume as it was.
C20_SkillSetOnly ==
  /\ [](pc = "SCORED" =>
          \A v \in SkillVariants(resume_data.skills_list) :
            LET parsed == build_parsed_data([resume_data EXCEPT
                                               !.skills_list = v])
                other == calculate_ats_score(parsed, role, job_roles,
                                             ats_result.missing_skills)
            IN /\ LowerSet(v) = LowerSet(resume_data.skills_list)
               /\ other.skill_score = ats_result.skill_score
               /\ other.keyword_score = ats_result.keyword_score
               /\ other.completeness_score = ats_result.completeness_score
               /\ other.ats_score = ats_result.ats_score
               /\ other.matched_skills = ats_result.matched_skills
               /\ missing_skills_of(parsed, role, job_roles)
                  = Range(ats_result.missing_skills))
  /\ [][(pc = "READY") => (resume_data' = resume_data)]_vars

\* a scored resume with skills in mixed case, some matched and some
\* missing, that has variants in another order and another case
C20_Witness ==
  /\ pc = "SCORED"
  /\ Len(resume_data.skills_list) >= 2
  /\ Cardinality(SkillVariants(resume_data.skills_list)) >= 6
  /\ \E i \in DOMAIN resume_data.skills_list :
       lower(resume_data.skills_list[i]) # resume_data.skills_list[i]
  /\ ats_result.matched_skills # {}
  /\ ats_result.missing_skills # <<>>
  /\ ats_result.keyword_score > 0

(***************************************************************************)
(* Claims C21 to C30                                                       *)
(***************************************************************************)
\* the latest scoring pass of the run
LastPass == hist.passes[Len(hist.passes)]

\* C21: the expander runs at most once, from a state where the loop has
\* ended (its attempts are used up or nothing is missing) with the latest
\* score below 90; the step after it is the one scoring pass that ends the
\* run with its result; a run that returned below 90 has run the expander.
C21_ExpanderPlacement ==
  /\ [](/\ hist.n_complementary <= 1
        /\ (pc = "SCORE_FINAL") => (hist.n_complementary = 1)
        /\ (pc = "DONE") =>
             /\ ats_result = LastPass
             /\ Len(hist.passes) = 1 + hist.n_critical + hist.n_complementary
             /\ (ats_result.ats_score < 90) => (hist.n_complementary = 1))
  /\ [][(pc = "COMPLEMENTARY") =>
          (/\ hist.n_complementary = 0
           /\ hist.n_critical >= 1
           /\ attempt = max_attempts \/ ats_result.missing_skills = <<>>
           /\ ats_result = LastPass
           /\ ats_result.ats_score < 90
           /\ hist'.n_complementary = 1
           /\ hist'.passes = hist.passes
           /\ pc' = "SCORE_FINAL")]_vars
  /\ [][(pc = "SCORE_FINAL") =>
          (/\ pc' = "DONE"
           /\ hist'.passes = Append(hist.passes, ats_result')
           /\ hist'.n_complementary = 1)]_vars

\* a run that used both attempts, ran the expander and returned below 90
C21_Witness ==
  /\ pc = "DONE"
  /\ ats_result.ats_score < 90
  /\ hist.n_critical = 2
  /\ hist.n_complementary = 1
  /\ Len(hist.passes) = 4

\* the categories, in table order, whose fallback the diversity rule asks
\* for: no keyword of the category in the lower-cased skills, a fallback
\* defined for the role, and that fallback not among the skills
WantedCategories(skills_list, role_) ==
  SelectSeq([k \in 1..Len(_SKILL_CATEGORIES) |-> k],
            LAMBDA k :
              /\ \A i \in DOMAIN _SKILL_CATEGORIES[k].keywords :
                   _SKILL_CATEGORIES[k].keywords[i] \notin LowerSet(skills_list)
              /\ Truthy(PairGet(_SKILL_CATEGORIES[k].fallbacks, role_))
              /\ lower(PairGet(_SKILL_CATEGORIES[k].fallbacks, role_))
                   \notin LowerSet(skills_list))

\* the role has no fallback in any category
NoFallbacks(role_) ==
  \A k \in DOMAIN _SKILL_CATEGORIES :
    ~Truthy(PairGet(_SKILL_CATEGORIES[k].fallbacks, role_))

\* C22: one call appends to the skills exactly the fallbacks of the wanted
\* categories, one per category in table order and so at most 4; for a
\* role without fallbacks it appends nothing, and a second call right
\* after the first appends nothing.
C22_DiversityRule ==
  /\ (pc \in {"DIVERSIFY_2", "DIVERSIFIED"}) =>
       LET before == hist.pre.skills_list
           after == hist.diversified.skills_list
           wanted == WantedCategories(before, role)
       IN /\ Len(after) <= Len(before) + 4
          /\ after = before \o [i \in DOMAIN wanted |->
                                  PairGet(_SKILL_CATEGORIES[wanted[i]].fallbacks,
                                          role)]
          /\ NoFallbacks(role) => after = before
  /\ (pc = "DIVERSIFIED") =>
       resume_data.skills_list = hist.diversified.skills_list

\* two calls done on a resume that held one of the role's fallbacks under
\* another letter case and lacked a keyword of three categories: the first
\* call appended three skills and not the one already held
C22_Witness ==
  /\ pc = "DIVERSIFIED"
  /\ \E k \in DOMAIN _SKILL_CATEGORIES :
       LET fallback == PairGet(_SKILL_CATEGORIES[k].fallbacks, role)
       IN /\ Truthy(fallback)
          /\ lower(fallback) \in LowerSet(hist.pre.skills_list)
          /\ fallback \notin Range(hist.pre.skills_list)
          /\ \A i \in DOMAIN _SKILL_CATEGORIES[k].keywords :
               _SKILL_CATEGORIES[k].keywords[i]
                 \notin LowerSet(hist.pre.skills_list)
  /\ Len(resume_data.skills_list) = Len(hist.pre.skills_list) + 3

\* the first limit entries of list, from its entry k on, whose lower-cased
\* form is not in present_lower, each one counted as present once taken
RECURSIVE FirstAbsent(_, _, _, _)
FirstAbsent(list, present_lower, limit, k) ==
  IF k > Len(list) \/ limit = 0 THEN <<>>
  ELSE IF lower(list[k]) \in present_lower
       THEN FirstAbsent(list, present_lower, limit, k + 1)
       ELSE <<list[k]>> \o FirstAbsent(list, present_lower \cup {lower(list[k])},
                                       limit - 1, k + 1)

Appended(before, after) ==
  SubSeq(after.skills_list, Len(before.skills_list) + 1,
         Len(after.skills_list))

\* the bullets the rotating index assigns to entry i of a section of n
\* entries: the j-th appended skill goes to entry ((j - 1) mod n) + 1, in
\* the template ((j - 1) mod number of templates) + 1
DueBullets(added, templates, n, i) ==
  LET due == SelectSeq([j \in 1..Len(added) |-> j],
                       LAMBDA j : ((j - 1) % n) + 1 = i)
  IN [m \in DOMAIN due |->
        format(templates[((due[m] - 1) % Len(templates)) + 1],
               added[due[m]])]

\* every entry of the section kept its bullets and gained, at their end,
\* the bullets due to it as far as its cap allowed: all of them when they
\* fit under the cap
SectionTargeted(before, after, added, templates, cap) ==
  /\ Len(after) = Len(before)
  /\ \A i \in DOMAIN before :
       LET due == DueBullets(added, templates, Len(before), i)
           gained == SubSeq(after[i].bullets, Len(before[i].bullets) + 1,
                            Len(after[i].bullets))
       IN /\ [after[i] EXCEPT !.bullets = <<>>]
               = [before[i] EXCEPT !.bullets = <<>>]
          /\ IsPrefix(before[i].bullets, after[i].bullets)
          /\ IsPrefix(gained, due)
          /\ Len(before[i].bullets) + Len(due) <= cap => gained = due
          /\ (Len(added) <= Len(before)) => (Len(gained) <= 1)

\* the number of bullets of a section
RECURSIVE BulletCount(_)
BulletCount(entries) ==
  IF entries = <<>> THEN 0
  ELSE Len(Head(entries).bullets) + BulletCount(Tail(entries))

\* C24: a call of the critical injector adds at most one bullet per
\* appended skill; the bullets go to experience entries when there is one
\* and the projects are then untouched, to project entries only when there
\* is no experience; the j-th skill goes to the entry and the template the
\* rotating index gives, so two skills go to two entries of a section of
\* 2 or more.
C24_Targeting ==
  (pc = "INJECTED") =>
    LET added == Appended(hist.pre, resume_data)
    IN /\ BulletCount(resume_data.experience) + BulletCount(resume_data.projects)
            <= BulletCount(hist.pre.experience)
               + BulletCount(hist.pre.projects) + Len(added)
       /\ IF hist.pre.experience # <<>>
          THEN /\ resume_data.projects = hist.pre.projects
               /\ SectionTargeted(hist.pre.experience, resume_data.experience,
                                  added, _EXP_INJECTION_TEMPLATES, 4)
          ELSE /\ resume_data.experience = <<>>
               /\ SectionTargeted(hist.pre.projects, resume_data.projects,
                                  added, _PROJ_INJECTION_TEMPLATES, 3)

\* a call that appended two skills to a resume with two experience entries
\* below the cap: each entry gained one bullet and the projects none
C24_Witness ==
  /\ pc = "INJECTED"
  /\ Len(Appended(hist.pre, resume_data)) = 2
  /\ Len(hist.pre.experience) = 2
  /\ \A i \in 1..2 :
       /\ Len(hist.pre.experience[i].bullets) < 4
       /\ Len(resume_data.experience[i].bullets)
            = Len(hist.pre.experience[i].bullets) + 1
  /\ hist.pre.projects # <<>>
  /\ resume_data.projects = hist.pre.projects

\* the lower-cased skills the two catalogs list for the target role
OwnSkills ==
  UNION ({LowerSet(ROLE_SKILLS[i].skills) :
            i \in {i \in DOMAIN ROLE_SKILLS :
                     lower(ROLE_SKILLS[i].role) = lower(scoring_role)}}
         \cup {LowerSet(job_roles[i].skills) :
                 i \in {i \in DOMAIN job_roles :
                          job_roles[i].role = scoring_role}})

\* the lower-cased skills of the related roles: the other roles of either
\* catalog that share a skill with the target role's pool
RelatedSkills ==
  LET entries == Range(ROLE_SKILLS) \cup Range(job_roles)
  IN UNION {LowerSet(x.skills) :
              x \in {x \in entries :
                       /\ lower(x.role) # lower(scoring_role)
                       /\ LowerSet(x.skills) \cap OwnSkills # {}}}

NoSkills(d) == [d EXCEPT !.skills_list = <<>>]

\* C26: a step of the diversity stage or of the expander leaves every
\* field of the resume but the skills as it was (bullets, entries,
\* identity fields, derived text), and the skills it found are the head
\* of the skills it leaves.
C26_SkillsOnly ==
  [][(pc \in {"DIVERSIFY", "COMPLEMENTARY"}) =>
       (/\ NoSkills(resume_data') = NoSkills(resume_data)
        /\ IsPrefix(resume_data.skills_list, resume_data'.skills_list))]_vars

\* both stages appended skills to a resume with bullets in both sections
C26_Witness ==
  /\ pc = "SCORE_FINAL"
  /\ Len(hist.diversified.skills_list) > Len(hist.polished.skills_list)
  /\ Len(resume_data.skills_list)
       > Len(hist.scored[Len(hist.scored)].skills_list)
  /\ NoSkills(resume_data) = NoSkills(hist.scored[Len(hist.scored)])
  /\ resume_data.experience # <<>>
  /\ resume_data.projects # <<>>

\* a weak or vague phrase occurs in the bullet, letters compared without case
HasPhrase(bullet) ==
  \/ \E k \in DOMAIN _WEAK_VERB_MAP : search(_WEAK_VERB_MAP[k][1], bullet) # 0
  \/ \E k \in DOMAIN _QUANTIFICATION_MAP :
       search(_QUANTIFICATION_MAP[k][1], bullet) # 0

\* the section has the entries it had, each with its fields, the same
\* number of bullets, every bullet at its place, and the bullets without a
\* phrase as they were
SectionPolished(before, after) ==
  /\ Len(after) = Len(before)
  /\ \A i \in DOMAIN before :
       /\ [after[i] EXCEPT !.bullets = <<>>] = [before[i] EXCEPT !.bullets = <<>>]
       /\ Len(after[i].bullets) = Len(before[i].bullets)
       /\ \A j \in DOMAIN before[i].bullets :
            /\ after[i].bullets[j] = _enhance_single_bullet(before[i].bullets[j])
            /\ ~HasPhrase(before[i].bullets[j])
                 => after[i].bullets[j] = before[i].bullets[j]

IsWordChar(c) ==
  c \in Range(UpperLetters) \cup Range(LowerLetters) \cup Range(Digits) \cup {"_"}

\* the phrase occurs in text at i as a whole phrase: no word character
\* right before it or right after it
whole_at(phrase, text, i) ==
  /\ match_at(phrase, text, i)
  /\ i = 1 \/ ~IsWordChar(text[i - 1])
  /\ i + Len(phrase) > Len(text) \/ ~IsWordChar(text[i + Len(phrase)])

\* the start of the first whole-phrase occurrence, 0 for none
search_whole(phrase, text) ==
  LET hits == {i \in 1..(Len(text) - Len(phrase) + 1) :
                 whole_at(phrase, text, i)}
  IN IF hits = {} THEN 0 ELSE CHOOSE i \in hits : \A j \in hits : i <= j

\* the substitution rule of the claim, from item k of _WEAK_VERB_MAP: the
\* first whole-phrase occurrence of each weak phrase is replaced, the
\* replacement capitalized when the occurrence starts the bullet
RECURSIVE WholePhraseRule(_, _)
WholePhraseRule(text, k) ==
  IF k > Len(_WEAK_VERB_MAP) THEN text
  ELSE LET weak == _WEAK_VERB_MAP[k][1]
           strong == _WEAK_VERB_MAP[k][2]
           at == search_whole(weak, text)
       IN IF at = 0 THEN WholePhraseRule(text, k + 1)
          ELSE WholePhraseRule(
                 SubSeq(text, 1, at - 1)
                 \o (IF at = 1 THEN capitalize(strong) ELSE strong)
                 \o SubSeq(text, at + Len(weak), Len(text)), k + 1)

\* every bullet of the section is the bullet the rule gives, quantified
RuleApplied(before, after) ==
  \A i \in DOMAIN before :
    \A j \in DOMAIN before[i].bullets :
      after[i].bullets[j]
        = add_quantification(WholePhraseRule(before[i].bullets[j], 1), 1)

\* C28: a polish call replaces a weak phrase only where it occurs as a
\* whole phrase, letters compared without case, the first such occurrence
\* of each phrase only, capitalized exactly when it starts the bullet; an
\* occurrence inside a longer word is left alone.
C28_WholePhrase ==
  /\ (pc \in {"POLISH_2", "POLISHED"}) =>
       /\ RuleApplied(hist.pre.experience, hist.polished.experience)
       /\ RuleApplied(hist.pre.projects, hist.polished.projects)
  /\ (pc = "POLISHED") =>
       /\ RuleApplied(hist.polished.experience, resume_data.experience)
       /\ RuleApplied(hist.polished.projects, resume_data.projects)

\* pass b scores at least what pass a scores, part by part
NotBelow(a, b) ==
  /\ a.ats_score <= b.ats_score
  /\ a.skill_score <= b.skill_score
  /\ a.keyword_score <= b.keyword_score
  /\ a.completeness_score <= b.completeness_score

\* C29: over the scoring passes of one run the total score and its three
\* parts never drop from a pass to the next, and the returned score is at
\* least the score of the first pass.
C29_ScoreNeverDrops ==
  /\ \A i \in 1..(Len(hist.passes) - 1) :
       NotBelow(hist.passes[i], hist.passes[i + 1])
  /\ (pc = "DONE") => (ats_result.ats_score >= hist.passes[1].ats_score)

\* a returned run of four passes, each with a higher total than the one
\* before
C29_Witness ==
  /\ pc = "DONE"
  /\ Len(hist.passes) = 4
  /\ \A i \in 1..3 : hist.passes[i].ats_score < hist.passes[i + 1].ats_score
  /\ hist.passes[1].skill_score < hist.passes[4].skill_score
  /\ hist.passes[1].keyword_score < hist.passes[4].keyword_score

\* with m skills missing at pass k, on which the k-th call of the critical
\* injector runs, pass k + 1 has m - min(2, m) missing and min(2, m) more
\* matched
StepProgress ==
  \A k \in 1..(Len(hist.passes) - 1) :
    (k <= hist.n_critical) =>
      LET m == Len(hist.passes[k].missing_skills)
      IN /\ Len(hist.passes[k + 1].missing_skills) = m - Min(2, m)
         /\ Cardinality(hist.passes[k + 1].matched_skills)
              = Cardinality(hist.passes[k].matched_skills) + Min(2, m)
         /\ Range(hist.passes[k + 1].missing_skills)
              \subseteq Range(hist.passes[k].missing_skills)

\* at most max(0, m0 - 4) skills are missing now, of the m0 of the first
\* pass
LeftoverBound ==
  LET m0 == Len(hist.passes[1].missing_skills)
  IN Len(ats_result.missing_skills) <= (IF m0 > 4 THEN m0 - 4 ELSE 0)

\* C30 as stated: every injector call removes min(2, m) of the m missing
\* skills, and once the loop is over, by a return from inside it as well
\* as by leaving it for the expander, at most max(0, m0 - 4) remain.
C30_LoopProgressAlways ==
  /\ StepProgress
  /\ (\/ pc = "COMPLEMENTARY"
      \/ pc = "DONE" /\ hist.n_critical >= 1 /\ hist.n_complementary = 0)
       => LeftoverBound

\* C30 as amended: every injector call removes min(2, m) of the m missing
\* skills, and when the loop is left for the expander at most
\* max(0, m0 - 4) remain; a run that returns from inside the loop holds
\* fewer than the pass before.
C30_LoopProgress ==
  /\ StepProgress
  /\ (pc = "COMPLEMENTARY") => LeftoverBound
  /\ (pc = "DONE" /\ hist.n_critical >= 1 /\ hist.n_complementary = 0) =>
       Len(ats_result.missing_skills)
         < Len(hist.passes[Len(hist.passes) - 1].missing_skills)

\* the loop used both attempts on a first pass with 5 missing skills: 3
\* were missing at the second pass and 1 is left for the expander
C30_Witness ==
  /\ pc = "COMPLEMENTARY"
  /\ hist.n_critical = 2
  /\ Len(hist.passes) = 3
  /\ Len(hist.passes[1].missing_skills) = 5
  /\ Len(hist.passes[2].missing_skills) = 3
  /\ Len(ats_result.missing_skills) = 1
=============================================================================
